---- MODULE Spec2Model ----
(***************************************************************************)
(* Model of the in-memory request-admission layer of Med_AI:               *)
(*   assistant_chatbot/backend/rate_limiter.py    (RateLimiter)            *)
(*   assistant_chatbot/backend/session_manager.py (SessionManager)         *)
(*                                                                         *)
(* Time is counted in ticks, TicksPerSecond ticks to the second, so that   *)
(* Python's int() of a float number of seconds is a real truncation.       *)
(* Every call of time.time() is a separate read of the clock: the clock    *)
(* may move on between two reads made by the same call.                    *)
(* The session manager has a clock of its own (datetime.utcnow()), in the   *)
(* same ticks; its calls run under the manager's lock, one call one step.  *)
(***************************************************************************)
EXTENDS Integers, Sequences, FiniteSets, TLC

\* ---------------------------------------------------------------- bounds
TicksPerSecond == 2
\* the clock may move by single ticks between reads, MaxDrift ticks in all
MaxDrift == 1
\* the clock stops at StartSeconds + MaxElapsedSeconds
MaxElapsedSeconds == 3660
\* short jumps of the clock are taken in the first ShortSpanSeconds
ShortSpanSeconds == 60
\* number of is_allowed calls in one behaviour
MaxCalls == 3
\* number of concurrently calling threads in SpecConc
NumThreads == 3
\* number of SessionManager calls in one behaviour
MaxSessionCalls == 3
\* the session clock stops after MaxSessionMinutes minutes
MaxSessionMinutes == 2
\* SpecLive: the clock stops after MaxLiveSeconds seconds
MaxLiveSeconds == 7260
\* number of SessionManager objects constructed in one behaviour
MaxManagers == 3
\* largest max_retries given to retry_with_exponential_backoff
MaxRetries == 3
\* number of requests to /ask that are under way at the same time
NumRequests == 2
\* number of threads that call get_session_manager
NumCallers == 2

Keys == {"ip1", "ip2"}
JumpSeconds == {30, 3600}
ShortJump == CHOOSE j \in JumpSeconds : \A i \in JumpSeconds : j <= i
StartSeconds == 3600
MinuteLimits == {1, 2}
HourLimits == {2}
BlockDurations == {30, 3600}

\* Optional[str] = None, as opposed to the empty string
NoneStr == "<None>"
\* Optional[List[str]] = None, as opposed to the empty list
NoneList == <<NoneStr>>
SessionIds == {"s1"}
\* the values uuid.uuid4() can return
Uuids == {"u1"}
TaskTypes == {"symptom_analysis", "doctor_matching"}
\* the (user_message, assistant_response, tools_used) of an update_session call
Exchanges ==
    { [user_message |-> NoneStr, assistant_response |-> NoneStr, tools_used |-> NoneList],
      [user_message |-> "", assistant_response |-> "hi", tools_used |-> NoneList],
      [user_message |-> "hello", assistant_response |-> "doctors",
       tools_used |-> <<"doctor_locator_tool">>] }
TimeoutMinutes == {1}
AdvanceMinutes == {1}

\* ------------------------------------------------------ program constants
None == -1
MinuteWindowSeconds == 60
HourWindowSeconds == 3600
CleanupWindowMinutes == 60

VARIABLES
    requests_per_minute,      \* RateLimiter.requests_per_minute
    requests_per_hour,        \* RateLimiter.requests_per_hour
    block_duration_seconds,   \* RateLimiter.block_duration_seconds
    ip_data,                  \* RateLimiter.ip_data: key -> RateLimitEntry
    clock,                    \* the value of the latest time.time() read
    last,                     \* the call that has just returned, and its result
    admitted,                 \* history: the timestamps recorded in the last hour, per key
    calls,                    \* number of is_allowed calls made so far
    threads,                  \* SpecConc: the is_allowed call each thread is in
    _sessions,                \* SessionManager._sessions: session id -> SessionContext
    _session_timeout_minutes, \* SessionManager._session_timeout_minutes
    utcnow,                   \* the value of the latest datetime.utcnow() read
    slast,                    \* the SessionManager call that has just returned, and its result
    born,                     \* history: per session id, the task type it was created with
                              \*   and the task-type changes asked of it since
    scalls,                   \* number of SessionManager calls made so far
    _lock,                    \* SessionManager._lock: the thread that holds it, or Free
    workers,                  \* SpecLock: the update_session call each thread is in
    http,                     \* SpecHttp: the request that has just been answered
    _global_session_manager,  \* session_manager._global_session_manager: an object, or None
    managers,                 \* the SessionManager objects constructed so far: their _sessions
    callers,                  \* the get_session_manager call each thread is in
    returned,                 \* what the calls since the latest reset have returned
    before,                   \* the objects constructed before the latest reset
    inflight,                 \* SpecAsk: the requests to /ask that are under way
    retry                     \* SpecRetry: the retry_with_exponential_backoff call under way

ratevars == <<requests_per_minute, requests_per_hour, block_duration_seconds,
              ip_data, clock, last, admitted, calls, threads>>

lockvars == <<_lock, workers>>

httpvars == <<http>>

modvars == <<_global_session_manager, managers, callers, returned, before>>

askvars == <<inflight>>

retryvars == <<retry>>

sessvars == <<_sessions, _session_timeout_minutes, utcnow, slast, born, scalls, lockvars,
              httpvars, modvars, askvars, retryvars>>

vars == <<requests_per_minute, requests_per_hour, block_duration_seconds,
          ip_data, clock, last, admitted, calls, threads, sessvars>>

\* ---------------------------------------------------------------- helpers
Secs(s) == s * TicksPerSecond

\* int(x) for a float x of seconds held in ticks: truncation toward zero
PyInt(x) == IF x >= 0 THEN x \div TicksPerSecond ELSE 0 - ((0 - x) \div TicksPerSecond)

Max(a, b) == IF a >= b THEN a ELSE b
Min(a, b) == IF a <= b THEN a ELSE b
SeqMin(s) == CHOOSE m \in {s[i] : i \in DOMAIN s} : \A j \in DOMAIN s : m <= s[j]

\* what a time.time() read may return when the previous read returned t
Reads(t) ==
    {t} \cup (IF (t % Secs(ShortJump)) < MaxDrift THEN {t + 1} ELSE {})

NewEntry == [ip_address |-> "", requests |-> <<>>, blocked_until |-> None]

\* self.ip_data[ip_address] on the defaultdict, then the ip_address fix-up
GetOrCreate(d, ip) ==
    LET d1 == IF ip \in DOMAIN d THEN d ELSE [k \in DOMAIN d \cup {ip} |-> IF k = ip THEN NewEntry ELSE d[k]]
    IN  IF d1[ip].ip_address = "" THEN [d1 EXCEPT ![ip].ip_address = ip] ELSE d1

\* a cleanup that takes its window for hours and so drops nothing in time
cleanup_window_in_hours(reqs, window_minutes, t) ==
    LET cutoff_time == t - Secs(window_minutes * 3600)
    IN  SelectSeq(reqs, LAMBDA req_time : req_time > cutoff_time)

\* RateLimitEntry.cleanup_old_requests, the clock read being t
cleanup_old_requests(reqs, window_minutes, t) ==
    LET cutoff_time == t - Secs(window_minutes * 60)
    IN  SelectSeq(reqs, LAMBDA req_time : req_time > cutoff_time)

\* sum(1 for req_time in entry.requests if req_time > cutoff)
CountAfter(reqs, cutoff) == Cardinality({i \in DOMAIN reqs : reqs[i] > cutoff})

\* truthiness of an Optional[float]
Truthy(b) == b # None /\ b # 0

\* RateLimiter.get_reset_time, the clock read being t (in seconds)
get_reset_time(d, ip, t) ==
    IF ip \notin DOMAIN d \/ d[ip].requests = <<>>
    THEN PyInt(t + Secs(60))
    ELSE LET reqs == d[ip].requests
             minute_requests == SelectSeq(reqs, LAMBDA r : r > t - Secs(MinuteWindowSeconds))
             hour_requests == SelectSeq(reqs, LAMBDA r : r > t - Secs(HourWindowSeconds))
             minute_reset == IF minute_requests # <<>>
                             THEN PyInt(SeqMin(minute_requests) + Secs(60))
                             ELSE PyInt(t + Secs(60))
             hour_reset == IF hour_requests # <<>>
                           THEN PyInt(SeqMin(hour_requests) + Secs(3600))
                           ELSE PyInt(t + Secs(3600))
         IN  Min(minute_reset, hour_reset)

\* remaining counts that use the hour cutoff for both windows
RemainingHeadersOneCutoff(d, ip, rpm, rph, t) ==
    IF ip \in DOMAIN d
    THEN [minute |-> Max(0, rpm - CountAfter(d[ip].requests, t - Secs(HourWindowSeconds))),
          hour |-> Max(0, rph - CountAfter(d[ip].requests, t - Secs(HourWindowSeconds)))]
    ELSE [minute |-> rpm, hour |-> rph]

\* RateLimiter._get_rate_limit_headers, lines 212-224: the remaining counts,
\* t being the clock read of line 210
RemainingHeaders(d, ip, rpm, rph, t) ==
    IF ip \in DOMAIN d
    THEN [minute |-> Max(0, rpm - CountAfter(d[ip].requests, t - Secs(MinuteWindowSeconds))),
          hour |-> Max(0, rph - CountAfter(d[ip].requests, t - Secs(HourWindowSeconds)))]
    ELSE [minute |-> rpm, hour |-> rph]

\* RateLimiter._get_rate_limit_headers: t is its own clock read, tr the read
\* made by get_reset_time
_get_rate_limit_headers(d, ip, rpm, rph, blocked, t, tr) ==
    LET rem == RemainingHeaders(d, ip, rpm, rph, t)
        headers == [h \in {"X-RateLimit-Limit-Minute", "X-RateLimit-Limit-Hour",
                           "X-RateLimit-Remaining-Minute", "X-RateLimit-Remaining-Hour",
                           "X-RateLimit-Reset"} |->
                      CASE h = "X-RateLimit-Limit-Minute" -> rpm
                        [] h = "X-RateLimit-Limit-Hour" -> rph
                        [] h = "X-RateLimit-Remaining-Minute" -> rem.minute
                        [] h = "X-RateLimit-Remaining-Hour" -> rem.hour
                        [] OTHER -> get_reset_time(d, ip, tr)]
    IN  IF blocked /\ ip \in DOMAIN d /\ Truthy(d[ip].blocked_until)
        THEN [h \in DOMAIN headers \cup {"Retry-After"} |->
                 IF h = "Retry-After"
                 THEN Max(1, PyInt(d[ip].blocked_until - t))
                 ELSE headers[h]]
        ELSE headers

\* an is_blocked for which a block never runs out
is_blocked_unexpiring(e, t) ==
    [ret |-> e.blocked_until # None, entry |-> e]

\* an is_blocked whose expiry test is the wrong way round
is_blocked_swapped(e, t) ==
    IF e.blocked_until = None
    THEN [ret |-> FALSE, entry |-> e]
    ELSE IF t <= e.blocked_until
         THEN [ret |-> FALSE, entry |-> [e EXCEPT !.blocked_until = None]]
         ELSE [ret |-> TRUE, entry |-> e]

\* RateLimitEntry.is_blocked, t being the clock read it makes when a block is set
is_blocked(e, t) ==
    IF e.blocked_until = None
    THEN [ret |-> FALSE, entry |-> e]
    ELSE IF t >= e.blocked_until
         THEN [ret |-> FALSE, entry |-> [e EXCEPT !.blocked_until = None]]
         ELSE [ret |-> TRUE, entry |-> e]

\* RateLimitEntry.add_request
add_request(e, t) == [e EXCEPT !.requests = Append(@, t)]

\* a block that lasts one minute whatever the configured duration
block_for_a_minute(e, duration_seconds, t) ==
    [e EXCEPT !.blocked_until = t + Secs(MinuteWindowSeconds)]

\* RateLimitEntry.block_for_duration
block_for_duration(e, duration_seconds, t) ==
    [e EXCEPT !.blocked_until = t + Secs(duration_seconds)]

\* a per-minute test that lets one request too many through
MinuteLimitExceeded(requests_last_minute, rpm) == requests_last_minute > rpm

\* the per-minute limit test of is_allowed (line 144)
MinuteLimitReached(requests_last_minute, rpm) == requests_last_minute >= rpm

\* a per-hour test that never denies
HourLimitIgnored(requests_last_hour, rph) == FALSE

\* a per-hour test that lets one request too many through
HourLimitExceeded(requests_last_hour, rph) == requests_last_hour > rph

\* the per-hour limit test of is_allowed (line 153)
HourLimitReached(requests_last_hour, rph) == requests_last_hour >= rph

\* The clock reads of one is_allowed call, in program order:
\*   now  current_time (line 120)      chk  is_blocked (line 50)
\*   cln  cleanup_old_requests (37)    act  block_for_duration (69) / add_request (60)
\*   hdr  _get_rate_limit_headers (210) rst get_reset_time (180 / 183)
\* RateLimiter.is_allowed as a function of the state and of these reads
is_allowed(d, ip, rpm, rph, dur, T) ==
    LET d1 == GetOrCreate(d, ip)
        b == is_blocked(d1[ip], T.chk)
        d2 == [d1 EXCEPT ![ip] = b.entry]
    IN  IF b.ret
        THEN [data |-> d2, allowed |-> FALSE, path |-> "blocked", expired |-> FALSE,
              headers |-> _get_rate_limit_headers(d2, ip, rpm, rph, TRUE, T.hdr, T.rst)]
        ELSE LET d3 == [d2 EXCEPT ![ip].requests =
                            cleanup_old_requests(@, CleanupWindowMinutes, T.cln)]
                 minute_cutoff == T.now - Secs(MinuteWindowSeconds)
                 hour_cutoff == T.now - Secs(HourWindowSeconds)
                 requests_last_minute == CountAfter(d3[ip].requests, minute_cutoff)
                 requests_last_hour == CountAfter(d3[ip].requests, hour_cutoff)
             IN  IF MinuteLimitReached(requests_last_minute, rpm)
                 THEN LET d4 == [d3 EXCEPT ![ip] = block_for_duration(@, dur, T.act)]
                      IN  [data |-> d4, allowed |-> FALSE, path |-> "minute",
                           expired |-> b.entry # d1[ip],
                           headers |-> _get_rate_limit_headers(d4, ip, rpm, rph, TRUE, T.hdr, T.rst)]
                 ELSE IF HourLimitReached(requests_last_hour, rph)
                 THEN LET d4 == [d3 EXCEPT ![ip] = block_for_duration(@, dur, T.act)]
                      IN  [data |-> d4, allowed |-> FALSE, path |-> "hour",
                           expired |-> b.entry # d1[ip],
                           headers |-> _get_rate_limit_headers(d4, ip, rpm, rph, TRUE, T.hdr, T.rst)]
                 ELSE LET d4 == [d3 EXCEPT ![ip] = add_request(@, T.act)]
                      IN  [data |-> d4, allowed |-> TRUE, path |-> "ok",
                           expired |-> b.entry # d1[ip],
                           headers |-> _get_rate_limit_headers(d4, ip, rpm, rph, FALSE, T.hdr, T.rst)]

\* an unblock_ip that lifts the block of every key
unblock_ip_everyone(d, ip) ==
    [data |-> [k \in DOMAIN d |-> [d[k] EXCEPT !.blocked_until = None]],
     ret |-> ip \in DOMAIN d /\ Truthy(d[ip].blocked_until)]

\* an unblock_ip that indexes the defaultdict and so creates the entry
unblock_ip_indexing(d, ip) ==
    LET d1 == GetOrCreate(d, ip)
    IN  IF Truthy(d1[ip].blocked_until)
        THEN [data |-> [d1 EXCEPT ![ip].blocked_until = None], ret |-> TRUE]
        ELSE [data |-> d1, ret |-> FALSE]

\* an unblock_ip that reports success and leaves the block in place
unblock_ip_keeping(d, ip) ==
    IF ip \in DOMAIN d /\ Truthy(d[ip].blocked_until)
    THEN [data |-> d, ret |-> TRUE]
    ELSE [data |-> d, ret |-> FALSE]

\* RateLimiter.unblock_ip
unblock_ip(d, ip) ==
    IF ip \in DOMAIN d /\ Truthy(d[ip].blocked_until)
    THEN [data |-> [d EXCEPT ![ip].blocked_until = None], ret |-> TRUE]
    ELSE [data |-> d, ret |-> FALSE]

\* a clear_all_blocks that forgets the blocked keys altogether
clear_all_blocks_dropping(d) ==
    [data |-> [k \in {j \in DOMAIN d : ~Truthy(d[j].blocked_until)} |-> d[k]],
     ret |-> Cardinality({k \in DOMAIN d : Truthy(d[k].blocked_until)})]

\* RateLimiter.clear_all_blocks
clear_all_blocks(d) ==
    [data |-> [k \in DOMAIN d |->
                  IF Truthy(d[k].blocked_until)
                  THEN [d[k] EXCEPT !.blocked_until = None]
                  ELSE d[k]],
     ret |-> Cardinality({k \in DOMAIN d : Truthy(d[k].blocked_until)})]

\* RateLimiter.get_blocked_ips, t being the clock read of line 285 and of the
\* is_blocked calls: the details of the blocked keys, and the entries as the
\* is_blocked calls leave them
get_blocked_ips(d, t) ==
    [data |-> [k \in DOMAIN d |-> is_blocked(d[k], t).entry],
     ret |-> { [ip_address |-> k,
                blocked_until |-> d[k].blocked_until,
                time_remaining_seconds |-> PyInt(d[k].blocked_until - t),
                request_count |-> Len(d[k].requests)] :
               k \in {j \in DOMAIN d : is_blocked(d[j], t).ret} }]

\* RateLimiter.get_stats, t being the clock read of line 306 and of the calls
\* it makes
get_stats(d, rpm, rph, dur, t) ==
    LET hour_cutoff == t - Secs(3600)
        d1 == [k \in DOMAIN d |-> is_blocked(d[k], t).entry]
        b == get_blocked_ips(d1, t)
    IN  [data |-> b.data,
         ret |-> [total_tracked_ips |-> Cardinality(DOMAIN d),
                  currently_blocked_ips |->
                      Cardinality({k \in DOMAIN d : is_blocked(d[k], t).ret}),
                  active_ips_last_hour |->
                      Cardinality({k \in DOMAIN d : CountAfter(d[k].requests, hour_cutoff) > 0}),
                  requests_per_minute_limit |-> rpm,
                  requests_per_hour_limit |-> rph,
                  block_duration_seconds |-> dur,
                  blocked_ips |-> b.ret]]

\* --------------------------------------------------------- session manager
\* A datetime is held in ticks as well; every datetime.utcnow() call is a
\* separate read of the clock. An operation is given the sequence R of the
\* values its reads return, in program order, and the index i of the first
\* one it has not used yet; it hands back the index it has reached.

\* what a datetime.utcnow() read may return when the previous read returned t
UtcReads(t) ==
    {t} \cup (IF (t % Secs(60)) < MaxDrift THEN {t + 1} ELSE {})

\* the n reads of a call that is over within one tick of the clock
SameReads(t, n) == { [i \in 1 .. n |-> t] }

\* the n reads of a call during which the clock may move on: between the
\* first read and the second (in get_session: between the expiry test and
\* the access-time update)
ReadSeqs(t, n) ==
    { [i \in 1 .. n |-> IF i = 1 THEN t ELSE t2] : t2 \in UtcReads(t) }

\* a dict that holds k bound to v and nothing else
DictPut_alone(S, k, v) == [x \in {k} |-> v]

\* a dict without the key k / with k bound to v
DictDel(S, k) == [x \in DOMAIN S \ {k} |-> S[x]]
DictPut(S, k, v) == [x \in DOMAIN S \cup {k} |-> IF x = k THEN v ELSE S[x]]

\* truthiness of an Optional[str]
TruthyStr(x) == x # NoneStr /\ x # ""

\* metadata of a new SessionContext: field(default_factory=dict)
EmptyMetadata == [k \in {} |-> <<>>]

\* context.metadata.get('context_switches', [])
context_switches(context) ==
    IF "context_switches" \in DOMAIN context.metadata
    THEN context.metadata["context_switches"] ELSE <<>>

\* a constructor that starts every session on the same task type
SessionContextDefaultTask(session_id, task_type, R, i) ==
    [session_id |-> session_id, task_type |-> "symptom_analysis",
     created_at |-> R[i], last_accessed |-> R[i + 1],
     message_history |-> <<>>, metadata |-> EmptyMetadata]

\* SessionContext(session_id=..., task_type=...): the two default factories
\* read the clock one after the other
SessionContext(session_id, task_type, R, i) ==
    [session_id |-> session_id, task_type |-> task_type,
     created_at |-> R[i], last_accessed |-> R[i + 1],
     message_history |-> <<>>, metadata |-> EmptyMetadata]

\* an update_access_time that leaves the timestamp as it is
update_access_time_noop(context, t) == context

\* SessionContext.update_access_time
update_access_time(context, t) == [context EXCEPT !.last_accessed = t]

\* an add_message that forgets the tools
add_message_without_tools(context, role, content, tools_used, t) ==
    [context EXCEPT !.message_history =
        Append(@, [role |-> role, content |-> content, timestamp |-> t,
                   tools_used |-> <<>>])]

\* SessionContext.add_message
add_message(context, role, content, tools_used, t) ==
    [context EXCEPT !.message_history =
        Append(@, [role |-> role, content |-> content, timestamp |-> t,
                   tools_used |-> IF tools_used = NoneList \/ tools_used = <<>>
                                  THEN <<>> ELSE tools_used])]

\* a switch_task_type that changes the task type and writes no record
switch_task_type_silent(context, new_task_type, R, i) ==
    IF context.task_type # new_task_type
    THEN [context |-> update_access_time([context EXCEPT !.task_type = new_task_type], R[i]),
          ret |-> TRUE, i |-> i + 2]
    ELSE [context |-> context, ret |-> FALSE, i |-> i]

\* a switch_task_type that writes the record the wrong way round
switch_task_type_reversed(context, new_task_type, R, i) ==
    IF context.task_type # new_task_type
    THEN LET old_task_type == context.task_type
             c1 == update_access_time([context EXCEPT !.task_type = new_task_type], R[i])
             c2 == IF "context_switches" \notin DOMAIN c1.metadata
                   THEN [c1 EXCEPT !.metadata = DictPut(@, "context_switches", <<>>)]
                   ELSE c1
             c3 == [c2 EXCEPT !.metadata["context_switches"] =
                       Append(@, [from |-> new_task_type, to |-> old_task_type,
                                  timestamp |-> R[i + 1]])]
         IN  [context |-> c3, ret |-> TRUE, i |-> i + 2]
    ELSE [context |-> context, ret |-> FALSE, i |-> i]

\* SessionContext.switch_task_type
switch_task_type(context, new_task_type, R, i) ==
    IF context.task_type # new_task_type
    THEN LET old_task_type == context.task_type
             c1 == update_access_time([context EXCEPT !.task_type = new_task_type], R[i])
             c2 == IF "context_switches" \notin DOMAIN c1.metadata
                   THEN [c1 EXCEPT !.metadata = DictPut(@, "context_switches", <<>>)]
                   ELSE c1
             c3 == [c2 EXCEPT !.metadata["context_switches"] =
                       Append(@, [from |-> old_task_type, to |-> new_task_type,
                                  timestamp |-> R[i + 1]])]
         IN  [context |-> c3, ret |-> TRUE, i |-> i + 2]
    ELSE [context |-> context, ret |-> FALSE, i |-> i]

\* an expiry test that already fires when the timeout has just been reached
is_expired_at_timeout(context, timeout_minutes, t) ==
    t - context.last_accessed >= Secs(timeout_minutes * 60)

\* SessionContext.is_expired, t being the clock read it makes
is_expired(context, timeout_minutes, t) ==
    t - context.last_accessed > Secs(timeout_minutes * 60)

\* a create_session that keeps the session an identifier already has
create_session_keeping(S, task_type, session_id, u, R, i) ==
    LET id == IF session_id = NoneStr THEN u ELSE session_id
        context == SessionContext(id, task_type, R, i)
    IN  [sessions |-> IF id \in DOMAIN S THEN S ELSE DictPut(S, id, context),
         ret |-> id, i |-> i + 2]

\* SessionManager.create_session; u is what uuid.uuid4() returns if it is called
create_session(S, task_type, session_id, u, R, i) ==
    LET id == IF session_id = NoneStr THEN u ELSE session_id
        context == SessionContext(id, task_type, R, i)
    IN  [sessions |-> DictPut(S, id, context), ret |-> id, i |-> i + 2]

\* a get_session that hands an expired session out again instead of removing it
get_session_reviving(S, session_id, timeout_minutes, R, i) ==
    IF session_id \notin DOMAIN S
    THEN [sessions |-> S, found |-> FALSE, expired |-> FALSE, now |-> None, i |-> i]
    ELSE [sessions |-> [S EXCEPT ![session_id] = update_access_time(@, R[i + 1])],
          found |-> TRUE, expired |-> FALSE, now |-> R[i], i |-> i + 2]

\* SessionManager.get_session; found = a context is returned, not None
get_session(S, session_id, timeout_minutes, R, i) ==
    IF session_id \notin DOMAIN S
    THEN [sessions |-> S, found |-> FALSE, expired |-> FALSE, now |-> None, i |-> i]
    ELSE IF is_expired(S[session_id], timeout_minutes, R[i])
    THEN [sessions |-> DictDel(S, session_id), found |-> FALSE, expired |-> TRUE,
          now |-> R[i], i |-> i + 1]
    ELSE [sessions |-> [S EXCEPT ![session_id] = update_access_time(@, R[i + 1])],
          found |-> TRUE, expired |-> FALSE, now |-> R[i], i |-> i + 2]

\* SessionManager.update_session; the context returned is sessions[session_id]
update_session(S, session_id, task_type, user_message, assistant_response, tools_used, timeout_minutes, R, i) ==
    LET g == get_session(S, session_id, timeout_minutes, R, i)
        c == IF ~g.found
             THEN create_session(g.sessions, task_type, session_id, session_id, R, g.i)
             ELSE [sessions |-> g.sessions, ret |-> session_id, i |-> g.i]
        sw == switch_task_type(c.sessions[session_id], task_type, R, c.i)
        m1 == IF TruthyStr(user_message)
              THEN [context |-> add_message(sw.context, "user", user_message, NoneList, R[sw.i]),
                    i |-> sw.i + 1]
              ELSE [context |-> sw.context, i |-> sw.i]
        m2 == IF TruthyStr(assistant_response)
              THEN [context |-> add_message(m1.context, "assistant", assistant_response,
                                            tools_used, R[m1.i]),
                    i |-> m1.i + 1]
              ELSE m1
        context == update_access_time(m2.context, R[m2.i])
    IN  [sessions |-> [c.sessions EXCEPT ![session_id] = context],
         created |-> ~g.found, expired |-> g.expired, switched |-> sw.ret,
         now |-> g.now, i |-> m2.i + 1]

\* a delete_session that reports the removal and leaves the session in place
delete_session_keeping(S, session_id) ==
    IF session_id \in DOMAIN S
    THEN [sessions |-> S, ret |-> TRUE]
    ELSE [sessions |-> S, ret |-> FALSE]

\* SessionManager.delete_session
delete_session(S, session_id) ==
    IF session_id \in DOMAIN S
    THEN [sessions |-> DictDel(S, session_id), ret |-> TRUE]
    ELSE [sessions |-> S, ret |-> FALSE]

\* the identifiers of a dict in the order in which items() yields them
Items(S) ==
    CHOOSE s \in [1 .. Cardinality(DOMAIN S) -> DOMAIN S] :
        \A k \in DOMAIN S : \E n \in DOMAIN s : s[n] = k

\* a cleanup that removes the sessions that are still alive
cleanup_expired_sessions_inverted(S, timeout_minutes, R, i) ==
    LET items == Items(S)
        live_sessions ==
            { items[n] : n \in { m \in DOMAIN items :
                ~is_expired(S[items[m]], timeout_minutes, R[i + m - 1]) } }
    IN  [sessions |-> [k \in DOMAIN S \ live_sessions |-> S[k]],
         ret |-> Cardinality(live_sessions), i |-> i + Cardinality(DOMAIN S)]

\* SessionManager.cleanup_expired_sessions: is_expired reads the clock once
\* for every session
cleanup_expired_sessions(S, timeout_minutes, R, i) ==
    LET items == Items(S)
        expired_sessions ==
            { items[n] : n \in { m \in DOMAIN items :
                is_expired(S[items[m]], timeout_minutes, R[i + m - 1]) } }
    IN  [sessions |-> [k \in DOMAIN S \ expired_sessions |-> S[k]],
         ret |-> Cardinality(expired_sessions), i |-> i + Cardinality(DOMAIN S)]

\* SessionManager.get_active_session_count
get_active_session_count(S, timeout_minutes, R, i) ==
    LET c == cleanup_expired_sessions(S, timeout_minutes, R, i)
    IN  [sessions |-> c.sessions, ret |-> Cardinality(DOMAIN c.sessions), i |-> c.i]

\* the sum of f over the keys in D
RECURSIVE SumOver(_, _)
SumOver(f, D) ==
    IF D = {} THEN 0
    ELSE LET k == CHOOSE x \in D : TRUE IN f[k] + SumOver(f, D \ {k})

\* the dict get_session_stats returns for the sessions S; the average is held
\* as the pair <<total_messages, len(sessions)>> it is the quotient of
StatsOf(S) ==
    IF DOMAIN S = {}
    THEN [total_sessions |-> 0,
          sessions_by_task_type |-> [tt \in {} |-> 0],
          average_messages_per_session |-> <<0, 1>>,
          context_switches_total |-> 0]
    ELSE [total_sessions |-> Cardinality(DOMAIN S),
          sessions_by_task_type |->
              [tt \in { S[k].task_type : k \in DOMAIN S } |->
                  Cardinality({ k \in DOMAIN S : S[k].task_type = tt })],
          average_messages_per_session |->
              << SumOver([k \in DOMAIN S |-> Len(S[k].message_history)], DOMAIN S),
                 Cardinality(DOMAIN S) >>,
          context_switches_total |->
              SumOver([k \in DOMAIN S |-> Len(context_switches(S[k]))], DOMAIN S)]

\* a get_session_stats that counts the sessions as they are stored
get_session_stats_uncleaned(S, timeout_minutes, R, i) ==
    [sessions |-> S, ret |-> StatsOf(S), i |-> i]

\* SessionManager.get_session_stats
get_session_stats(S, timeout_minutes, R, i) ==
    LET c == cleanup_expired_sessions(S, timeout_minutes, R, i)
    IN  [sessions |-> c.sessions, ret |-> StatsOf(c.sessions), i |-> c.i]

\* SessionManager.has_context_switched
has_context_switched(S, session_id, timeout_minutes, R, i) ==
    LET g == get_session(S, session_id, timeout_minutes, R, i)
    IN  [sessions |-> g.sessions,
         ret |-> IF ~g.found THEN FALSE
                 ELSE Len(context_switches(g.sessions[session_id])) > 0,
         expired |-> g.expired, now |-> g.now, i |-> g.i]

\* SessionManager.get_context_switches
get_context_switches(S, session_id, timeout_minutes, R, i) ==
    LET g == get_session(S, session_id, timeout_minutes, R, i)
    IN  [sessions |-> g.sessions,
         ret |-> IF ~g.found THEN <<>>
                 ELSE context_switches(g.sessions[session_id]),
         expired |-> g.expired, now |-> g.now, i |-> g.i]

\* the reads an update_session call can make at most: is_expired and
\* update_access_time in get_session, two in switch_task_type, one in each
\* add_message, and the closing update_access_time
MaxReads == 7

\* ------------------------------------------------------------ state machine
NoHeaders == [h \in {} |-> 0]
NoCall == [op |-> "none", key |-> "", allowed |-> FALSE, ret |-> 0, path |-> "",
           expired |-> FALSE,
           headers |-> NoHeaders, now |-> None, hdr |-> None, until |-> None]

Idle == [pc |-> "idle", ip |-> "", now |-> None, kept |-> <<>>,
         requests_last_minute |-> 0, requests_last_hour |-> 0, allowed |-> FALSE]

NoSessionCall == [op |-> "none", session_id |-> NoneStr, id |-> NoneStr,
                  ok |-> FALSE, ret |-> NoneStr,
                  expired |-> FALSE, created |-> FALSE, switched |-> FALSE, now |-> None,
                  task_type |-> NoneStr, user_message |-> NoneStr,
                  assistant_response |-> NoneStr, tools_used |-> NoneList,
                  after |-> "", overwrote |-> FALSE,
                  count |-> None, switches |-> <<>>, stats |-> StatsOf(<<>>)]

\* no request has been answered yet
NoRequest == [path |-> "", status |-> 0, limited |-> FALSE, forwarded |-> FALSE,
              resolved |-> FALSE, agent |-> "none", updates |-> 0,
              session_id |-> NoneStr, task_type |-> NoneStr, message |-> NoneStr,
              response |-> NoneStr, tools_used |-> <<>>, asked |-> NoneStr]

\* threading.RLock() that no thread holds
Free == 0

\* a thread that is not in a call, or has returned from it
IdleWorker == [pc |-> "idle", session_id |-> NoneStr, task_type |-> NoneStr,
               user_message |-> NoneStr, assistant_response |-> NoneStr,
               tools_used |-> NoneList]

\* no retry_with_exponential_backoff call has been made
NoRetry ==
    [pc |-> "idle", max_retries |-> 0, initial_delay |-> 0, backoff_factor |-> 0,
     max_delay |-> 0, attempt |-> 0, delay |-> 0, last_exception |-> NoneStr,
     calls |-> 0, slept |-> <<>>, ret |-> NoneStr, raised |-> NoneStr, steps |-> 0]

\* a request that has not arrived
NoInflight ==
    [pc |-> "idle", request |-> [session_id |-> NoneStr, task_type |-> NoneStr,
                                 message |-> NoneStr],
     outcome |-> NoneStr, status |-> 0, seen |-> 0]

IdleCaller == [pc |-> "idle", clean |-> TRUE]

\* the module-level statement _global_session_manager = None
ModuleInit ==
    /\ _global_session_manager = None
    /\ managers = <<>>
    /\ callers = [t \in 1 .. NumCallers |-> IdleCaller]
    /\ returned = {}
    /\ before = {}

\* SessionManager.__init__, the timeout being one of timeouts
SessionManagerInit(timeouts) ==
    /\ _sessions = [k \in {} |-> NoneStr]
    /\ _session_timeout_minutes \in timeouts
    /\ utcnow = 0
    /\ slast = NoSessionCall
    /\ born = [k \in {} |-> NoneStr]
    /\ scalls = 0
    /\ _lock = Free
    /\ workers = [w \in 1 .. NumThreads |-> IdleWorker]

\* RateLimiter.__init__ and SessionManager.__init__ with its default timeout
Init ==
    /\ requests_per_minute \in MinuteLimits
    /\ requests_per_hour \in HourLimits
    /\ block_duration_seconds \in BlockDurations
    /\ ip_data = [k \in {} |-> NewEntry]
    /\ clock = Secs(StartSeconds)
    /\ last = NoCall
    /\ admitted = [k \in Keys |-> <<>>]
    /\ calls = 0
    /\ threads = [t \in 1 .. NumThreads |-> Idle]
    /\ http = NoRequest
    /\ ModuleInit
    /\ inflight = [q \in 1 .. NumRequests |-> NoInflight]
    /\ retry = NoRetry
    /\ SessionManagerInit({30})

\* the history keeps what lies within the last hour of the clock: an older
\* timestamp shares no window with any later one
Recent(h, t) == [k \in Keys |-> SelectSeq(h[k], LAMBDA r : r > t - Secs(HourWindowSeconds))]

\* the clock reads one is_allowed(ip) call can make from this state
AdmitReads(ip) ==
    LET hasBlock == ip \in DOMAIN ip_data /\ ip_data[ip].blocked_until # None
        more(t) == IF hasBlock /\ t < ip_data[ip].blocked_until THEN {t} ELSE Reads(t)
    IN  UNION { UNION { UNION { UNION { UNION {
            { [now |-> t0, chk |-> t1, cln |-> t2, act |-> t3, hdr |-> t4, rst |-> t5] :
                t5 \in Reads(t4) } :
              t4 \in Reads(t3) } :
            t3 \in more(t2) } :
          t2 \in more(t1) } :
        t1 \in (IF hasBlock THEN Reads(t0) ELSE {t0}) } :
      t0 \in Reads(clock) }

\* one request: RateLimiter.is_allowed(ip)
Admit(ip) ==
    /\ calls < MaxCalls
    /\ \E T \in AdmitReads(ip) :
        \E r \in { is_allowed(ip_data, ip, requests_per_minute, requests_per_hour,
                              block_duration_seconds, T) } :
            /\ ip_data' = r.data
            /\ clock' = T.rst
            /\ last' = [op |-> "is_allowed", key |-> ip, allowed |-> r.allowed,
                        ret |-> IF r.allowed THEN 1 ELSE 0, path |-> r.path,
                        expired |-> r.expired,
                        headers |-> r.headers, now |-> T.now, hdr |-> T.hdr,
                        until |-> IF last.op = "unblock_ip" /\ last.key = ip
                                  THEN last.until ELSE None]
            /\ admitted' = IF r.allowed
                           THEN [Recent(admitted, clock) EXCEPT ![ip] = Append(@, T.act)]
                           ELSE Recent(admitted, clock)
            /\ calls' = calls + 1
            /\ UNCHANGED <<sessvars, requests_per_minute, requests_per_hour, block_duration_seconds,
                           threads>>

\* an administrator's RateLimiter.unblock_ip(ip)
Unblock(ip) ==
    LET r == unblock_ip(ip_data, ip)
    IN  /\ ip_data' = r.data
        /\ last' = [NoCall EXCEPT !.op = "unblock_ip", !.key = ip,
                                  !.ret = IF r.ret THEN 1 ELSE 0,
                                  !.until = IF ip \in DOMAIN ip_data
                                            THEN ip_data[ip].blocked_until ELSE None]
        /\ UNCHANGED <<sessvars, requests_per_minute, requests_per_hour, block_duration_seconds,
                       clock, admitted, calls, threads>>

\* an administrator's RateLimiter.clear_all_blocks()
ClearAllBlocks ==
    LET r == clear_all_blocks(ip_data)
    IN  /\ ip_data' = r.data
        /\ last' = [NoCall EXCEPT !.op = "clear_all_blocks", !.ret = r.ret]
        /\ UNCHANGED <<sessvars, requests_per_minute, requests_per_hour, block_duration_seconds,
                       clock, admitted, calls, threads>>

\* time passes between two calls
Advance(j) ==
    /\ clock + Secs(j) <= Secs(StartSeconds + MaxElapsedSeconds)
    /\ j = ShortJump => clock + Secs(j) <= Secs(StartSeconds + ShortSpanSeconds) + MaxDrift
    /\ clock' = clock + Secs(j)
    /\ admitted' = Recent(admitted, clock + Secs(j))
    /\ last' = NoCall
    /\ UNCHANGED <<sessvars, requests_per_minute, requests_per_hour, block_duration_seconds,
                   ip_data, calls, threads>>

Next ==
    \/ \E ip \in Keys : Admit(ip)
    \/ \E ip \in Keys : Unblock(ip)
    \/ ClearAllBlocks
    \/ \E j \in JumpSeconds : Advance(j)

Spec == Init /\ [][Next]_vars

\* ------------------------------------------------------------ statistics
\* RateLimiter.get_stats(), which reads the clock once
Stats ==
    \E t \in Reads(clock) :
        LET r == get_stats(ip_data, requests_per_minute, requests_per_hour,
                           block_duration_seconds, t)
        IN  /\ ip_data' = r.data
            /\ clock' = t
            /\ last' = [NoCall EXCEPT !.op = "get_stats", !.ret = r.ret.total_tracked_ips,
                                      !.now = t]
            /\ admitted' = Recent(admitted, t)
            /\ UNCHANGED <<sessvars, requests_per_minute, requests_per_hour,
                           block_duration_seconds, calls, threads>>

\* a limiter of two requests per minute that blocks for half a minute
InitStats == Init /\ requests_per_minute = 2 /\ block_duration_seconds = 30

NextStats ==
    \/ \E ip \in Keys : Admit(ip)
    \/ \E ip \in Keys : Unblock(ip)
    \/ ClearAllBlocks
    \/ Stats
    \/ \E j \in JumpSeconds : Advance(j)

SpecStats == InitStats /\ [][NextStats]_vars

\* ------------------------------------------------- concurrent callers
\* Several threads inside is_allowed at once. The class takes no lock, so
\* the threads interleave between the statements of is_allowed.

\* lines 120-125: read the clock, get or create the entry
T_Enter(t, ip) ==
    /\ threads[t].pc = "idle"
    /\ \E t0 \in Reads(clock) :
        /\ clock' = t0
        /\ ip_data' = GetOrCreate(ip_data, ip)
        /\ threads' = [threads EXCEPT ![t] = [Idle EXCEPT !.pc = "is_blocked", !.ip = ip, !.now = t0]]
    /\ UNCHANGED <<sessvars, requests_per_minute, requests_per_hour, block_duration_seconds,
                   last, admitted, calls>>

\* lines 128-131: entry.is_blocked(), and the denial of a blocked key
T_IsBlocked(t) ==
    /\ threads[t].pc = "is_blocked"
    /\ LET ip == threads[t].ip IN
       \E t1 \in (IF ip_data[ip].blocked_until = None THEN {clock} ELSE Reads(clock)) :
        LET b == is_blocked(ip_data[ip], t1) IN
        /\ clock' = t1
        /\ ip_data' = [ip_data EXCEPT ![ip] = b.entry]
        /\ threads' = [threads EXCEPT ![t].pc = IF b.ret THEN "done" ELSE "cleanup"]
    /\ UNCHANGED <<sessvars, requests_per_minute, requests_per_hour, block_duration_seconds,
                   last, admitted, calls>>

\* line 38, right-hand side: the list of the requests to keep is built
T_CleanupRead(t) ==
    /\ threads[t].pc = "cleanup"
    /\ \E t2 \in Reads(clock) :
        /\ clock' = t2
        /\ threads' = [threads EXCEPT ![t].pc = "assign",
                          ![t].kept = cleanup_old_requests(ip_data[threads[t].ip].requests,
                                                           CleanupWindowMinutes, t2)]
    /\ UNCHANGED <<sessvars, requests_per_minute, requests_per_hour, block_duration_seconds,
                   ip_data, last, admitted, calls>>

\* line 38, assignment: self.requests = the list built
T_CleanupAssign(t) ==
    /\ threads[t].pc = "assign"
    /\ ip_data' = [ip_data EXCEPT ![threads[t].ip].requests = threads[t].kept]
    /\ threads' = [threads EXCEPT ![t].pc = "count", ![t].kept = <<>>]
    /\ UNCHANGED <<sessvars, requests_per_minute, requests_per_hour, block_duration_seconds,
                   clock, last, admitted, calls>>

\* lines 137-141: the two window counts
T_Count(t) ==
    /\ threads[t].pc = "count"
    /\ LET reqs == ip_data[threads[t].ip].requests IN
       threads' = [threads EXCEPT
           ![t].pc = "decide",
           ![t].requests_last_minute = CountAfter(reqs, threads[t].now - Secs(MinuteWindowSeconds)),
           ![t].requests_last_hour = CountAfter(reqs, threads[t].now - Secs(HourWindowSeconds))]
    /\ UNCHANGED <<sessvars, requests_per_minute, requests_per_hour, block_duration_seconds,
                   ip_data, clock, last, admitted, calls>>

\* lines 144-166: block and deny, or record and admit
T_Decide(t) ==
    /\ threads[t].pc = "decide"
    /\ LET ip == threads[t].ip
           deny == \/ MinuteLimitReached(threads[t].requests_last_minute, requests_per_minute)
                   \/ HourLimitReached(threads[t].requests_last_hour, requests_per_hour)
       IN  \E t3 \in Reads(clock) :
            /\ clock' = t3
            /\ ip_data' = [ip_data EXCEPT ![ip] =
                              IF deny THEN block_for_duration(@, block_duration_seconds, t3)
                                      ELSE add_request(@, t3)]
            /\ threads' = [threads EXCEPT ![t].pc = "done", ![t].allowed = ~deny]
    /\ UNCHANGED <<sessvars, requests_per_minute, requests_per_hour, block_duration_seconds,
                   last, admitted, calls>>

NextConc ==
    \/ \E t \in 1 .. NumThreads, ip \in Keys : T_Enter(t, ip)
    \/ \E t \in 1 .. NumThreads : T_IsBlocked(t)
    \/ \E t \in 1 .. NumThreads : T_CleanupRead(t)
    \/ \E t \in 1 .. NumThreads : T_CleanupAssign(t)
    \/ \E t \in 1 .. NumThreads : T_Count(t)
    \/ \E t \in 1 .. NumThreads : T_Decide(t)

SpecConc == Init /\ [][NextConc]_vars

TypeOK ==
    /\ DOMAIN ip_data \subseteq Keys
    /\ clock \in Nat

\* ------------------------------------------------- session manager calls
\* Every method of SessionManager runs under self._lock, so a call is one step.

\* what the call just before this one did to session_id: "deleted" it,
\* found it "expired" in get_session, or neither
After(session_id) ==
    IF slast.op = "delete_session" /\ slast.id = session_id /\ slast.ok THEN "deleted"
    ELSE IF slast.op = "get_session" /\ slast.id = session_id /\ slast.expired THEN "expired"
    ELSE ""

\* the clock after a call that was given the reads R and has reached index i
ClockAfter(R, i) == IF i = 1 THEN utcnow ELSE R[i - 1]

\* SessionManager.create_session(task_type, session_id); session_id may be None
CreateSession(task_type, session_id) ==
    /\ scalls < MaxSessionCalls
    /\ \E u \in Uuids, R \in SameReads(utcnow, 2) :
        \* uuid4 does not return an identifier that is in use
        /\ session_id = NoneStr => u \notin DOMAIN _sessions
        /\ LET r == create_session(_sessions, task_type, session_id, u, R, 1) IN
            /\ _sessions' = r.sessions
            /\ utcnow' = ClockAfter(R, r.i)
            /\ slast' = [NoSessionCall EXCEPT !.op = "create_session",
                            !.session_id = session_id, !.id = r.ret, !.ok = TRUE,
                            !.ret = r.ret, !.task_type = task_type,
                            !.overwrote = /\ r.ret \in DOMAIN _sessions
                                          /\ _sessions[r.ret].message_history # <<>>]
            /\ born' = DictPut(born, r.ret, [task_type |-> task_type, changes |-> 0])
    /\ scalls' = scalls + 1
    /\ UNCHANGED <<_session_timeout_minutes, ratevars, lockvars, httpvars, modvars, askvars, retryvars>>

\* SessionManager.get_session(session_id)
GetSession(session_id) ==
    /\ scalls < MaxSessionCalls
    /\ \E R \in ReadSeqs(utcnow, 2) :
        LET r == get_session(_sessions, session_id, _session_timeout_minutes, R, 1) IN
        /\ _sessions' = r.sessions
        /\ utcnow' = ClockAfter(R, r.i)
        /\ slast' = [NoSessionCall EXCEPT !.op = "get_session",
                        !.session_id = session_id, !.id = session_id, !.ok = r.found,
                        !.expired = r.expired, !.now = r.now,
                        !.after = After(session_id)]
        /\ born' = IF r.expired THEN DictDel(born, session_id) ELSE born
    /\ scalls' = scalls + 1
    /\ UNCHANGED <<_session_timeout_minutes, ratevars, lockvars, httpvars, modvars, askvars, retryvars>>

\* SessionManager.update_session(session_id, task_type, user_message,
\* assistant_response, tools_used)
UpdateSession(session_id, task_type, x) ==
    /\ scalls < MaxSessionCalls
    /\ \E R \in SameReads(utcnow, MaxReads) :
        LET r == update_session(_sessions, session_id, task_type, x.user_message,
                                x.assistant_response, x.tools_used,
                                _session_timeout_minutes, R, 1)
        IN
        /\ _sessions' = r.sessions
        /\ utcnow' = ClockAfter(R, r.i)
        /\ slast' = [NoSessionCall EXCEPT !.op = "update_session",
                        !.session_id = session_id, !.id = session_id, !.ok = TRUE,
                        !.expired = r.expired, !.created = r.created,
                        !.switched = r.switched, !.now = r.now,
                        !.task_type = task_type, !.user_message = x.user_message,
                        !.assistant_response = x.assistant_response,
                        !.tools_used = x.tools_used, !.after = After(session_id)]
        /\ born' = IF r.created
                   THEN DictPut(born, session_id, [task_type |-> task_type, changes |-> 0])
                   ELSE IF _sessions[session_id].task_type # task_type
                   THEN [born EXCEPT ![session_id].changes = @ + 1]
                   ELSE born
    /\ scalls' = scalls + 1
    /\ UNCHANGED <<_session_timeout_minutes, ratevars, lockvars, httpvars, modvars, askvars, retryvars>>

\* SessionManager.delete_session(session_id)
DeleteSession(session_id) ==
    /\ scalls < MaxSessionCalls
    /\ LET r == delete_session(_sessions, session_id) IN
        /\ _sessions' = r.sessions
        /\ slast' = [NoSessionCall EXCEPT !.op = "delete_session",
                        !.session_id = session_id, !.id = session_id, !.ok = r.ret,
                        !.after = After(session_id)]
        /\ born' = IF r.ret THEN DictDel(born, session_id) ELSE born
    /\ scalls' = scalls + 1
    /\ UNCHANGED <<_session_timeout_minutes, utcnow, ratevars, lockvars, httpvars, modvars, askvars, retryvars>>

\* time passes between two calls: m minutes, or a tick more
SessionAdvance(m) ==
    /\ scalls < MaxSessionCalls
    /\ utcnow + Secs(60 * m) <= Secs(60 * MaxSessionMinutes) + MaxDrift
    /\ utcnow' \in UtcReads(utcnow + Secs(60 * m))
    /\ slast' = NoSessionCall
    /\ UNCHANGED <<_sessions, _session_timeout_minutes, born, scalls, ratevars, lockvars, httpvars, modvars, askvars, retryvars>>

\* a RateLimiter with its default limits beside the SessionManager
InitSess ==
    /\ requests_per_minute = 5
    /\ requests_per_hour = 50
    /\ block_duration_seconds = 3600
    /\ ip_data = [k \in {} |-> NewEntry]
    /\ clock = Secs(StartSeconds)
    /\ last = NoCall
    /\ admitted = [k \in Keys |-> <<>>]
    /\ calls = 0
    /\ threads = [t \in 1 .. NumThreads |-> Idle]
    /\ http = NoRequest
    /\ ModuleInit
    /\ inflight = [q \in 1 .. NumRequests |-> NoInflight]
    /\ retry = NoRetry
    /\ SessionManagerInit(TimeoutMinutes)

\* a client creates and updates sessions under its own identifier, or has an
\* identifier generated; it reads and deletes sessions of both kinds
NextSess ==
    \/ \E tt \in TaskTypes, id \in SessionIds \cup {NoneStr} : CreateSession(tt, id)
    \/ \E id \in SessionIds \cup Uuids : GetSession(id)
    \/ \E id \in SessionIds, tt \in TaskTypes, x \in Exchanges : UpdateSession(id, tt, x)
    \/ \E id \in SessionIds \cup Uuids : DeleteSession(id)
    \/ \E m \in AdvanceMinutes : SessionAdvance(m)

SpecSess == InitSess /\ [][NextSess]_vars

\* ------------------------------------------- views, statistics and cleanup
\* what the call just before this one was, if it was a cleanup: one that
\* "removed" sessions or one that "kept" them all
AfterCleanup ==
    IF slast.op # "cleanup_expired_sessions" THEN ""
    ELSE IF slast.count > 0 THEN "removed" ELSE "kept"

\* the sessions a call found stored and left out of the dict
Evicted(S) == DOMAIN _sessions \ DOMAIN S

\* SessionManager.has_context_switched(session_id)
HasContextSwitched(session_id) ==
    /\ scalls < MaxSessionCalls
    /\ \E R \in SameReads(utcnow, 2) :
        LET r == has_context_switched(_sessions, session_id, _session_timeout_minutes, R, 1) IN
        /\ _sessions' = r.sessions
        /\ utcnow' = ClockAfter(R, r.i)
        /\ slast' = [NoSessionCall EXCEPT !.op = "has_context_switched",
                        !.session_id = session_id, !.id = session_id, !.ok = r.ret,
                        !.expired = r.expired, !.now = r.now,
                        !.after = After(session_id)]
        /\ born' = IF r.expired THEN DictDel(born, session_id) ELSE born
    /\ scalls' = scalls + 1
    /\ UNCHANGED <<_session_timeout_minutes, ratevars, lockvars, httpvars, modvars, askvars, retryvars>>

\* SessionManager.get_context_switches(session_id)
GetContextSwitches(session_id) ==
    /\ scalls < MaxSessionCalls
    /\ \E R \in SameReads(utcnow, 2) :
        LET r == get_context_switches(_sessions, session_id, _session_timeout_minutes, R, 1) IN
        /\ _sessions' = r.sessions
        /\ utcnow' = ClockAfter(R, r.i)
        /\ slast' = [NoSessionCall EXCEPT !.op = "get_context_switches",
                        !.session_id = session_id, !.id = session_id,
                        !.ok = (r.ret # <<>>), !.switches = r.ret,
                        !.expired = r.expired, !.now = r.now,
                        !.after = After(session_id)]
        /\ born' = IF r.expired THEN DictDel(born, session_id) ELSE born
    /\ scalls' = scalls + 1
    /\ UNCHANGED <<_session_timeout_minutes, ratevars, lockvars, httpvars, modvars, askvars, retryvars>>

\* SessionManager.cleanup_expired_sessions()
CleanupExpiredSessions ==
    /\ scalls < MaxSessionCalls
    /\ \E R \in SameReads(utcnow, Cardinality(DOMAIN _sessions)) :
        LET r == cleanup_expired_sessions(_sessions, _session_timeout_minutes, R, 1) IN
        /\ _sessions' = r.sessions
        /\ utcnow' = ClockAfter(R, r.i)
        /\ slast' = [NoSessionCall EXCEPT !.op = "cleanup_expired_sessions",
                        !.ok = TRUE, !.count = r.ret, !.now = utcnow,
                        !.expired = (Evicted(r.sessions) # {}),
                        !.after = AfterCleanup]
        /\ born' = [k \in DOMAIN born \ Evicted(r.sessions) |-> born[k]]
    /\ scalls' = scalls + 1
    /\ UNCHANGED <<_session_timeout_minutes, ratevars, lockvars, httpvars, modvars, askvars, retryvars>>

\* SessionManager.get_active_session_count()
GetActiveSessionCount ==
    /\ scalls < MaxSessionCalls
    /\ \E R \in SameReads(utcnow, Cardinality(DOMAIN _sessions)) :
        LET r == get_active_session_count(_sessions, _session_timeout_minutes, R, 1) IN
        /\ _sessions' = r.sessions
        /\ utcnow' = ClockAfter(R, r.i)
        /\ slast' = [NoSessionCall EXCEPT !.op = "get_active_session_count",
                        !.ok = TRUE, !.count = r.ret, !.now = utcnow,
                        !.expired = (Evicted(r.sessions) # {})]
        /\ born' = [k \in DOMAIN born \ Evicted(r.sessions) |-> born[k]]
    /\ scalls' = scalls + 1
    /\ UNCHANGED <<_session_timeout_minutes, ratevars, lockvars, httpvars, modvars, askvars, retryvars>>

\* SessionManager.get_session_stats()
GetSessionStats ==
    /\ scalls < MaxSessionCalls
    /\ \E R \in SameReads(utcnow, Cardinality(DOMAIN _sessions)) :
        LET r == get_session_stats(_sessions, _session_timeout_minutes, R, 1) IN
        /\ _sessions' = r.sessions
        /\ utcnow' = ClockAfter(R, r.i)
        /\ slast' = [NoSessionCall EXCEPT !.op = "get_session_stats",
                        !.ok = TRUE, !.stats = r.ret, !.now = utcnow,
                        !.expired = (Evicted(r.sessions) # {})]
        /\ born' = [k \in DOMAIN born \ Evicted(r.sessions) |-> born[k]]
    /\ scalls' = scalls + 1
    /\ UNCHANGED <<_session_timeout_minutes, ratevars, lockvars, httpvars, modvars, askvars, retryvars>>

\* the exchange a client of the views records
ViewExchanges == { x \in Exchanges : TruthyStr(x.user_message) }

\* the session calls together with the views, the statistics and the cleanup
NextView ==
    \/ \E tt \in TaskTypes, id \in SessionIds \cup {NoneStr} : CreateSession(tt, id)
    \/ \E id \in SessionIds \cup Uuids : GetSession(id)
    \/ \E id \in SessionIds, tt \in TaskTypes, x \in ViewExchanges : UpdateSession(id, tt, x)
    \/ \E id \in SessionIds \cup Uuids : DeleteSession(id)
    \/ \E id \in SessionIds \cup Uuids : HasContextSwitched(id)
    \/ \E id \in SessionIds \cup Uuids : GetContextSwitches(id)
    \/ CleanupExpiredSessions
    \/ GetActiveSessionCount
    \/ GetSessionStats
    \/ \E m \in AdvanceMinutes : SessionAdvance(m)

SpecView == InitSess /\ [][NextView]_vars

\* ------------------------------------------- update_session under the lock
\* Threads call update_session on one session at the same time. The body of
\* the call runs inside `with self._lock`; it is taken one statement at a
\* time, so that what keeps the calls apart is the lock and nothing else. The
\* lock is re-entrant: get_session and create_session take it again inside
\* update_session, which leaves its holder as it is.

\* the question and the answer thread w records
WorkerExchange(w) ==
    [user_message |-> "q" \o ToString(w), assistant_response |-> "a" \o ToString(w),
     tools_used |-> NoneList]

\* a lock that lets every thread in
acquire_unguarded(lock, w) == TRUE

\* RLock.acquire does not block thread w: no other thread holds the lock
acquire(lock, w) == lock = Free \/ lock = w

\* the session thread w is working on
Mine(w) == workers[w].session_id

\* thread w calls update_session(session_id, task_type, question, answer)
W_Call(w, session_id, task_type) ==
    /\ workers[w].pc = "idle"
    /\ workers' = [workers EXCEPT ![w] =
            [pc |-> "lock", session_id |-> session_id, task_type |-> task_type,
             user_message |-> WorkerExchange(w).user_message,
             assistant_response |-> WorkerExchange(w).assistant_response,
             tools_used |-> WorkerExchange(w).tools_used]]
    /\ UNCHANGED <<_sessions, _session_timeout_minutes, utcnow, slast, born, scalls,
                   _lock, ratevars, httpvars, modvars, askvars, retryvars>>

\* with self._lock:
W_Lock(w) ==
    /\ workers[w].pc = "lock"
    /\ acquire(_lock, w)
    /\ _lock' = w
    /\ workers' = [workers EXCEPT ![w].pc = "get"]
    /\ UNCHANGED <<_sessions, _session_timeout_minutes, utcnow, slast, born, scalls,
                   ratevars, httpvars, modvars, askvars, retryvars>>

\* context = self.get_session(session_id)
W_Get(w) ==
    /\ workers[w].pc = "get"
    /\ \E R \in SameReads(utcnow, 2) :
        LET g == get_session(_sessions, Mine(w), _session_timeout_minutes, R, 1) IN
        /\ _sessions' = g.sessions
        /\ workers' = [workers EXCEPT ![w].pc = IF g.found THEN "switch" ELSE "create"]
    /\ UNCHANGED <<_session_timeout_minutes, utcnow, slast, born, scalls, _lock, ratevars, httpvars, modvars, askvars, retryvars>>

\* if context is None: self.create_session(task_type, session_id)
W_Create(w) ==
    /\ workers[w].pc = "create"
    /\ \E R \in SameReads(utcnow, 2) :
        _sessions' = create_session(_sessions, workers[w].task_type, Mine(w), Mine(w),
                                    R, 1).sessions
    /\ workers' = [workers EXCEPT ![w].pc = "switch"]
    /\ UNCHANGED <<_session_timeout_minutes, utcnow, slast, born, scalls, _lock, ratevars, httpvars, modvars, askvars, retryvars>>

\* context.switch_task_type(task_type)
W_Switch(w) ==
    /\ workers[w].pc = "switch"
    /\ \E R \in SameReads(utcnow, 2) :
        _sessions' = [_sessions EXCEPT ![Mine(w)] =
                         switch_task_type(@, workers[w].task_type, R, 1).context]
    /\ workers' = [workers EXCEPT ![w].pc = "user"]
    /\ UNCHANGED <<_session_timeout_minutes, utcnow, slast, born, scalls, _lock, ratevars, httpvars, modvars, askvars, retryvars>>

\* if user_message: context.add_message("user", user_message)
W_User(w) ==
    /\ workers[w].pc = "user"
    /\ _sessions' = IF TruthyStr(workers[w].user_message)
                    THEN [_sessions EXCEPT ![Mine(w)] =
                             add_message(@, "user", workers[w].user_message, NoneList, utcnow)]
                    ELSE _sessions
    /\ workers' = [workers EXCEPT ![w].pc = "assistant"]
    /\ UNCHANGED <<_session_timeout_minutes, utcnow, slast, born, scalls, _lock, ratevars, httpvars, modvars, askvars, retryvars>>

\* if assistant_response: context.add_message("assistant", ..., tools_used)
W_Assistant(w) ==
    /\ workers[w].pc = "assistant"
    /\ _sessions' = IF TruthyStr(workers[w].assistant_response)
                    THEN [_sessions EXCEPT ![Mine(w)] =
                             add_message(@, "assistant", workers[w].assistant_response,
                                         workers[w].tools_used, utcnow)]
                    ELSE _sessions
    /\ workers' = [workers EXCEPT ![w].pc = "touch"]
    /\ UNCHANGED <<_session_timeout_minutes, utcnow, slast, born, scalls, _lock, ratevars, httpvars, modvars, askvars, retryvars>>

\* context.update_access_time(); return context, which leaves the with block
W_Return(w) ==
    /\ workers[w].pc = "touch"
    /\ _sessions' = [_sessions EXCEPT ![Mine(w)] = update_access_time(@, utcnow)]
    /\ _lock' = IF _lock = w THEN Free ELSE _lock
    /\ workers' = [workers EXCEPT ![w].pc = "done"]
    /\ UNCHANGED <<_session_timeout_minutes, utcnow, slast, born, scalls, ratevars, httpvars, modvars, askvars, retryvars>>

NextLock ==
    \/ \E w \in 1 .. NumThreads, id \in SessionIds, tt \in TaskTypes : W_Call(w, id, tt)
    \/ \E w \in 1 .. NumThreads : W_Lock(w)
    \/ \E w \in 1 .. NumThreads : W_Get(w)
    \/ \E w \in 1 .. NumThreads : W_Create(w)
    \/ \E w \in 1 .. NumThreads : W_Switch(w)
    \/ \E w \in 1 .. NumThreads : W_User(w)
    \/ \E w \in 1 .. NumThreads : W_Assistant(w)
    \/ \E w \in 1 .. NumThreads : W_Return(w)

SpecLock == InitSess /\ [][NextLock]_vars

\* the one client that is served where one is enough
ArgsClient == CHOOSE ip \in Keys : TRUE

\* -------------------------------------------------- a request to the API
\* RateLimitMiddleware.dispatch in front of the /ask handler of main.py.

\* exempt_paths as main.py hands them to the middleware
ExemptPaths == {"/health", "/docs", "/openapi.json", "/redoc", "/static", "/assets",
                "/rate-limit/stats"}

\* str.startswith
StartsWith(path, prefix) ==
    Len(path) >= Len(prefix) /\ SubSeq(path, 1, Len(prefix)) = prefix

\* RateLimitMiddleware._is_exempt_path
_is_exempt_path(path) == \E exempt_path \in ExemptPaths : StartsWith(path, exempt_path)

\* task_config.validate_task_type
validate_task_type(task_type) ==
    task_type \in {"auto", "symptom_analysis", "doctor_matching", "health_qa",
                   "medication_info"}

\* the paths requested: the /ask endpoint and an exempt one
Paths == {"/ask", "/health"}

\* the bodies posted to /ask: a session id of the client's, or none
Requests ==
    [session_id : SessionIds \cup {NoneStr}, task_type : TaskTypes, message : {"hello"}]

\* what becomes of the agent for a request: it answers; its creation raises;
\* agent.stream raises in every retry, in the model call or in a tool, which
\* the handler around retry_with_exponential_backoff catches; or that handler
\* raises itself and the outer one catches
AgentOutcomes == {"ok", "create_fails", "llm_fails", "tool_fails"}

\* the outcomes the requests are given
RequestOutcomes == AgentOutcomes \ {"tool_fails"}

\* what parse_response hands back when the agent answers
AgentReply == [final_response |-> "doctors", tools_used |-> <<"doctor_locator_tool">>]

\* main.get_fallback_response(task_type, error_type)
get_fallback_response(task_type, error_type) ==
    "fallback " \o task_type \o " " \o error_type

\* a resolution that creates the session whether or not it is stored
resolve_session_creating(S, request, u, timeout_minutes, R, i) ==
    LET c == create_session(S, request.task_type,
                            IF TruthyStr(request.session_id)
                            THEN request.session_id ELSE NoneStr, u, R, i)
    IN  [sessions |-> c.sessions, session_id |-> c.ret,
         context_switched |-> FALSE, i |-> c.i]

\* session resolution of the /ask handler; u is what uuid4 returns
resolve_session(S, request, u, timeout_minutes, R, i) ==
    IF TruthyStr(request.session_id)
    THEN LET g == get_session(S, request.session_id, timeout_minutes, R, i)
         IN  IF ~g.found
             THEN LET c == create_session(g.sessions, request.task_type,
                                          request.session_id, u, R, g.i)
                      g2 == get_session(c.sessions, request.session_id, timeout_minutes,
                                        R, c.i)
                  IN  [sessions |-> g2.sessions, session_id |-> request.session_id,
                       context_switched |-> FALSE, i |-> g2.i]
             ELSE [sessions |-> g.sessions, session_id |-> request.session_id,
                   context_switched |-> S[request.session_id].task_type # request.task_type,
                   i |-> g.i]
    ELSE LET c == create_session(S, request.task_type, NoneStr, u, R, i)
         IN  [sessions |-> c.sessions, session_id |-> c.ret,
              context_switched |-> FALSE, i |-> c.i]

\* an /ask handler that skips the session update when the agent has failed
ask_skipping(S, request, u, outcome, timeout_minutes, R, i) ==
    LET res == resolve_session(S, request, u, timeout_minutes, R, i)
        up == update_session(res.sessions, res.session_id, request.task_type,
                             request.message, AgentReply.final_response,
                             AgentReply.tools_used, timeout_minutes, R, res.i)
    IN  IF outcome = "ok"
        THEN [sessions |-> up.sessions, status |-> 200, resolved |-> TRUE,
              agent |-> outcome, updates |-> 1, session_id |-> res.session_id,
              response |-> AgentReply.final_response,
              tools_used |-> AgentReply.tools_used, i |-> up.i]
        ELSE [sessions |-> res.sessions, status |-> 200, resolved |-> TRUE,
              agent |-> outcome, updates |-> 0, session_id |-> res.session_id,
              response |-> get_fallback_response(request.task_type, "llm_failure"),
              tools_used |-> <<>>, i |-> res.i]

\* the /ask handler of main.py, with a session manager at hand
ask(S, request, u, outcome, timeout_minutes, R, i) ==
    IF ~validate_task_type(request.task_type)
    THEN [sessions |-> S, status |-> 400, resolved |-> FALSE, agent |-> "none",
          updates |-> 0, session_id |-> request.session_id, response |-> NoneStr,
          tools_used |-> <<>>, i |-> i]
    ELSE LET res == resolve_session(S, request, u, timeout_minutes, R, i)
         IN  IF outcome = "create_fails"
             THEN [sessions |-> res.sessions, status |-> 400, resolved |-> TRUE,
                   agent |-> outcome, updates |-> 0, session_id |-> res.session_id,
                   response |-> NoneStr, tools_used |-> <<>>, i |-> res.i]
             ELSE LET reply ==
                          IF outcome = "ok" THEN AgentReply
                          ELSE IF outcome = "llm_fails"
                          THEN [final_response |->
                                    get_fallback_response(request.task_type, "llm_failure"),
                                tools_used |-> <<>>]
                          ELSE [final_response |->
                                    get_fallback_response(request.task_type, "tool_failure"),
                                tools_used |-> <<>>]
                      up == update_session(res.sessions, res.session_id, request.task_type,
                                           request.message, reply.final_response,
                                           reply.tools_used, timeout_minutes, R, res.i)
                  IN  [sessions |-> up.sessions, status |-> 200, resolved |-> TRUE,
                       agent |-> outcome, updates |-> 1, session_id |-> res.session_id,
                       response |-> reply.final_response,
                       tools_used |-> reply.tools_used, i |-> up.i]

\* the handler of an exempt path, health_check: it reads the clock and does
\* not touch the sessions
other_handler(S, i) ==
    [sessions |-> S, status |-> 200, resolved |-> FALSE, agent |-> "none",
     updates |-> 0, session_id |-> NoneStr, response |-> NoneStr,
     tools_used |-> <<>>, i |-> i + 1]

\* call_next(request): the handler the path leads to
call_next(S, path, request, u, outcome, timeout_minutes, R, i) ==
    IF path = "/ask" THEN ask(S, request, u, outcome, timeout_minutes, R, i)
    ELSE other_handler(S, i)

\* the answer of the middleware when it does not call the handler
TooManyRequests(S, i) ==
    [sessions |-> S, status |-> 429, resolved |-> FALSE, agent |-> "none",
     updates |-> 0, session_id |-> NoneStr, response |-> NoneStr,
     tools_used |-> <<>>, i |-> i]

\* a dispatch that hands a denied request on to the handler all the same
dispatch_forwarding(d, S, path, ip, request, u, outcome, rpm, rph, dur, timeout_minutes, T, R) ==
    IF _is_exempt_path(path)
    THEN [data |-> d, limited |-> FALSE, allowed |-> TRUE, forwarded |-> TRUE,
          limit |-> NoCall,
          out |-> call_next(S, path, request, u, outcome, timeout_minutes, R, 1)]
    ELSE LET r == is_allowed(d, ip, rpm, rph, dur, T)
         IN  [data |-> r.data, limited |-> TRUE, allowed |-> r.allowed,
              forwarded |-> TRUE, limit |-> r,
              out |-> call_next(S, path, request, u, outcome, timeout_minutes, R, 1)]

\* RateLimitMiddleware.dispatch; ip is what _get_client_ip returns
dispatch(d, S, path, ip, request, u, outcome, rpm, rph, dur, timeout_minutes, T, R) ==
    IF _is_exempt_path(path)
    THEN [data |-> d, limited |-> FALSE, allowed |-> TRUE, forwarded |-> TRUE,
          limit |-> NoCall,
          out |-> call_next(S, path, request, u, outcome, timeout_minutes, R, 1)]
    ELSE LET r == is_allowed(d, ip, rpm, rph, dur, T)
         IN  IF ~r.allowed
             THEN [data |-> r.data, limited |-> TRUE, allowed |-> FALSE,
                   forwarded |-> FALSE, limit |-> r, out |-> TooManyRequests(S, 1)]
             ELSE [data |-> r.data, limited |-> TRUE, allowed |-> TRUE,
                   forwarded |-> TRUE, limit |-> r,
                   out |-> call_next(S, path, request, u, outcome, timeout_minutes, R, 1)]

\* the reads of datetime.utcnow() one request can make at most: three calls
\* of the session manager in the resolution, and update_session
MaxRequestReads == 6 + MaxReads

\* the time.time() reads of an is_allowed call that is over within one tick
HttpReads ==
    { [now |-> clock, chk |-> clock, cln |-> clock, act |-> clock, hdr |-> clock,
       rst |-> clock] }

\* one request, from the middleware to the response
HttpRequest(path, ip, request, outcome) ==
    /\ calls < MaxCalls
    /\ \E T \in HttpReads, u \in Uuids, R \in SameReads(utcnow, MaxRequestReads) :
        /\ TruthyStr(request.session_id) \/ u \notin DOMAIN _sessions
        /\ \E r \in { dispatch(ip_data, _sessions, path, ip, request, u, outcome,
                               requests_per_minute, requests_per_hour,
                               block_duration_seconds, _session_timeout_minutes, T, R) } :
           /\ ip_data' = r.data
           /\ clock' = IF r.limited THEN T.rst ELSE clock
           /\ last' = IF r.limited
                      THEN [op |-> "is_allowed", key |-> ip, allowed |-> r.allowed,
                            ret |-> IF r.allowed THEN 1 ELSE 0, path |-> r.limit.path,
                            expired |-> r.limit.expired, headers |-> r.limit.headers,
                            now |-> T.now, hdr |-> T.hdr, until |-> None]
                      ELSE NoCall
           /\ admitted' = IF r.limited /\ r.allowed
                          THEN [k \in Keys |->
                                   IF k = ip THEN Append(Recent(admitted, clock)[k], T.act)
                                   ELSE Recent(admitted, clock)[k]]
                          ELSE Recent(admitted, clock)
           /\ _sessions' = r.out.sessions
           /\ utcnow' = ClockAfter(R, r.out.i)
           /\ http' = [path |-> path, status |-> r.out.status, limited |-> r.limited,
                       forwarded |-> r.forwarded, resolved |-> r.out.resolved,
                       agent |-> r.out.agent, updates |-> r.out.updates,
                       session_id |-> r.out.session_id, task_type |-> request.task_type,
                       message |-> request.message, response |-> r.out.response,
                       tools_used |-> r.out.tools_used, asked |-> request.session_id]
    /\ calls' = calls + 1
    /\ UNCHANGED <<requests_per_minute, requests_per_hour, block_duration_seconds, threads,
                   _session_timeout_minutes, slast, born, scalls, lockvars, modvars, askvars, retryvars>>

\* time passes between two requests
HttpAdvance(j) ==
    /\ calls < MaxCalls
    /\ clock + Secs(j) <= Secs(StartSeconds + ShortSpanSeconds)
    /\ clock' = clock + Secs(j)
    /\ utcnow' = utcnow + Secs(j)
    /\ admitted' = Recent(admitted, clock + Secs(j))
    /\ last' = NoCall
    /\ http' = NoRequest
    /\ UNCHANGED <<requests_per_minute, requests_per_hour, block_duration_seconds,
                   ip_data, calls, threads, _sessions, _session_timeout_minutes,
                   slast, born, scalls, lockvars, modvars, askvars, retryvars>>

\* the middleware with limits scaled down, and the session manager with its
\* default timeout
InitHttp ==
    /\ requests_per_minute = 2
    /\ requests_per_hour = 3
    /\ block_duration_seconds = 30
    /\ ip_data = [k \in {} |-> NewEntry]
    /\ clock = Secs(StartSeconds)
    /\ last = NoCall
    /\ admitted = [k \in Keys |-> <<>>]
    /\ calls = 0
    /\ threads = [t \in 1 .. NumThreads |-> Idle]
    /\ http = NoRequest
    /\ ModuleInit
    /\ inflight = [q \in 1 .. NumRequests |-> NoInflight]
    /\ retry = NoRetry
    /\ SessionManagerInit({30})

\* one client sends requests
NextHttp ==
    \/ \E path \in Paths, request \in Requests, outcome \in RequestOutcomes :
          HttpRequest(path, ArgsClient, request, outcome)
    \/ HttpAdvance(ShortJump)

SpecHttp == InitHttp /\ [][NextHttp]_vars

\* the requests of a client that sends an empty session id, or its own
EmptyIdRequests ==
    [session_id : {""} \cup SessionIds, task_type : TaskTypes, message : {"hello"}]

\* requests with an empty session id or an empty client key (what
\* _get_client_ip makes of the header "X-Forwarded-For: ,"), and
\* create_session called with an empty id
NextEmpty ==
    \/ \E ip \in {"", ArgsClient}, request \in EmptyIdRequests :
          HttpRequest("/ask", ip, request, "ok")
    \/ \E tt \in TaskTypes : CreateSession(tt, "")
    \/ HttpAdvance(ShortJump)

SpecEmpty == InitHttp /\ [][NextEmpty]_vars

\* --------------------------------------------------- requests under way
\* Several requests to /ask with one session id that no request has used
\* before. The middleware awaits call_next, so that other requests run
\* between its rate-limit test and the handler and between the handler and
\* the response; the handler itself awaits nothing and runs in one piece on
\* the event loop.
SharedSessionId == CHOOSE id \in SessionIds : TRUE

\* dispatch up to its await call_next(request)
Q_Arrive(q, task_type, outcome) ==
    /\ inflight[q].pc = "idle"
    /\ \E T \in HttpReads :
        \E r \in { is_allowed(ip_data, ArgsClient, requests_per_minute, requests_per_hour,
                              block_duration_seconds, T) } :
           /\ ip_data' = r.data
           /\ clock' = T.rst
           /\ admitted' = IF r.allowed
                          THEN [k \in Keys |->
                                   IF k = ArgsClient
                                   THEN Append(Recent(admitted, clock)[k], T.act)
                                   ELSE Recent(admitted, clock)[k]]
                          ELSE Recent(admitted, clock)
           /\ inflight' = [inflight EXCEPT ![q] =
                   [pc |-> IF r.allowed THEN "admitted" ELSE "done",
                    request |-> [session_id |-> SharedSessionId, task_type |-> task_type,
                                 message |-> WorkerExchange(q).user_message],
                    outcome |-> outcome,
                    status |-> IF r.allowed THEN 0 ELSE 429, seen |-> 0]]
    /\ UNCHANGED <<requests_per_minute, requests_per_hour, block_duration_seconds,
                   last, calls, threads, _sessions, _session_timeout_minutes,
                   utcnow, slast, born, scalls, lockvars, httpvars, modvars, retryvars>>

\* the /ask handler, start to end
Q_Handle(q) ==
    /\ inflight[q].pc = "admitted"
    /\ \E u \in Uuids, R \in SameReads(utcnow, MaxRequestReads) :
        \E out \in { ask(_sessions, inflight[q].request, u, inflight[q].outcome,
                         _session_timeout_minutes, R, 1) } :
           /\ _sessions' = out.sessions
           /\ utcnow' = ClockAfter(R, out.i)
           /\ inflight' = [inflight EXCEPT ![q].pc = "handled",
                                           ![q].status = out.status,
                                           ![q].seen = Cardinality(
                                               {p \in 1 .. NumRequests :
                                                   p # q /\ inflight[p].pc # "idle"})]
    /\ UNCHANGED <<_session_timeout_minutes, slast, born, scalls, ratevars, lockvars,
                   httpvars, modvars, retryvars>>

\* dispatch after call_next: the rate-limit headers are put on the response
Q_Respond(q) ==
    /\ inflight[q].pc = "handled"
    /\ inflight' = [inflight EXCEPT ![q].pc = "done"]
    /\ UNCHANGED <<_sessions, _session_timeout_minutes, utcnow, slast, born, scalls,
                   ratevars, lockvars, httpvars, modvars, retryvars>>

NextAsk ==
    \/ \E q \in 1 .. NumRequests :
          \/ \E tt \in TaskTypes, outcome \in RequestOutcomes : Q_Arrive(q, tt, outcome)
          \/ Q_Handle(q)
          \/ Q_Respond(q)
    \/ HttpAdvance(ShortJump)

SpecAsk == InitHttp /\ [][NextAsk]_vars

\* ------------------------------------------------- a caller that keeps calling
\* One key calls is_allowed again and again, as often as it likes between two
\* advances of the clock, and the clock keeps advancing, up to MaxLiveSeconds.
KeepCalling(ip) ==
    \E T \in AdmitReads(ip) :
        \E r \in { is_allowed(ip_data, ip, requests_per_minute, requests_per_hour,
                              block_duration_seconds, T) } :
            /\ ip_data' = r.data
            /\ clock' = T.rst
            /\ last' = [op |-> "is_allowed", key |-> ip, allowed |-> r.allowed,
                        ret |-> IF r.allowed THEN 1 ELSE 0, path |-> r.path,
                        expired |-> r.expired,
                        headers |-> r.headers, now |-> T.now, hdr |-> T.hdr,
                        until |-> None]
            /\ admitted' = IF r.allowed
                           THEN [Recent(admitted, clock) EXCEPT ![ip] = Append(@, T.act)]
                           ELSE Recent(admitted, clock)
            /\ UNCHANGED <<sessvars, requests_per_minute, requests_per_hour,
                           block_duration_seconds, calls, threads>>

\* time passes: by half minutes in the first minute, by hours afterwards
TimePasses(j) ==
    /\ clock + Secs(j) <= Secs(StartSeconds + MaxLiveSeconds) + MaxDrift
    /\ j = ShortJump => clock + Secs(j) <= Secs(StartSeconds + ShortSpanSeconds) + MaxDrift
    /\ clock' = clock + Secs(j)
    /\ admitted' = Recent(admitted, clock + Secs(j))
    /\ last' = NoCall
    /\ UNCHANGED <<sessvars, requests_per_minute, requests_per_hour, block_duration_seconds,
                   ip_data, calls, threads>>

NextLive ==
    \/ KeepCalling(ArgsClient)
    \/ \E j \in JumpSeconds : TimePasses(j)

\* the key keeps calling and time keeps advancing
SpecLive ==
    /\ Init
    /\ [][NextLive]_vars
    /\ WF_vars(KeepCalling(ArgsClient))
    /\ WF_vars(\E j \in JumpSeconds : TimePasses(j))

\* ------------------------------------------------------------- retrying
\* main.retry_with_exponential_backoff(func, max_retries, initial_delay,
\* backoff_factor, max_delay), statement by statement. The n-th call of func
\* returns the value "r<n>" or raises the exception "e<n>". Delays are whole
\* numbers of seconds, none negative.
RetryArgs ==
    [max_retries : 1 .. MaxRetries, initial_delay : {1, 2}, backoff_factor : {1, 2, 3},
     max_delay : {1, 4, 10}]

\* a wait that the largest delay does not cap
wait_time_uncapped(delay, max_delay) == delay

\* wait_time = min(delay, max_delay)
wait_time(delay, max_delay) == Min(delay, max_delay)

\* the head of the loop, for attempt in range(max_retries): another attempt,
\* or the raise after the loop
R_For ==
    /\ retry.pc = "for"
    /\ retry' = [retry EXCEPT !.pc = IF retry.attempt < retry.max_retries
                                     THEN "try" ELSE "raise",
                              !.steps = @ + 1]
    /\ UNCHANGED <<ratevars, _sessions, _session_timeout_minutes, utcnow, slast, born,
                   scalls, lockvars, httpvars, modvars, askvars>>

\* return func(), which returns or raises; the except clause keeps the
\* exception and, after the last attempt, the loop ends
R_Try(ok) ==
    /\ retry.pc = "try"
    /\ retry' = IF ok
                THEN [retry EXCEPT !.pc = "returned", !.calls = @ + 1,
                                   !.ret = "r" \o ToString(retry.calls + 1),
                                   !.steps = @ + 1]
                ELSE IF retry.attempt < retry.max_retries - 1
                THEN [retry EXCEPT !.pc = "sleep", !.calls = @ + 1,
                                   !.last_exception = "e" \o ToString(retry.calls + 1),
                                   !.steps = @ + 1]
                ELSE [retry EXCEPT !.pc = "for", !.attempt = @ + 1, !.calls = @ + 1,
                                   !.last_exception = "e" \o ToString(retry.calls + 1),
                                   !.steps = @ + 1]
    /\ UNCHANGED <<ratevars, _sessions, _session_timeout_minutes, utcnow, slast, born,
                   scalls, lockvars, httpvars, modvars, askvars>>

\* time.sleep(wait_time); delay *= backoff_factor; and on to the next attempt
R_Sleep ==
    /\ retry.pc = "sleep"
    /\ retry' = [retry EXCEPT !.pc = "for", !.attempt = @ + 1,
                              !.slept = Append(@, wait_time(retry.delay, retry.max_delay)),
                              !.delay = @ * retry.backoff_factor,
                              !.steps = @ + 1]
    /\ UNCHANGED <<ratevars, _sessions, _session_timeout_minutes, utcnow, slast, born,
                   scalls, lockvars, httpvars, modvars, askvars>>

\* raise last_exception
R_Raise ==
    /\ retry.pc = "raise"
    /\ retry' = [retry EXCEPT !.pc = "raised", !.raised = retry.last_exception,
                              !.steps = @ + 1]
    /\ UNCHANGED <<ratevars, _sessions, _session_timeout_minutes, utcnow, slast, born,
                   scalls, lockvars, httpvars, modvars, askvars>>

\* the call has started: delay = initial_delay, last_exception = None
InitRetry ==
    /\ requests_per_minute = 5
    /\ requests_per_hour = 50
    /\ block_duration_seconds = 3600
    /\ ip_data = [k \in {} |-> NewEntry]
    /\ clock = Secs(StartSeconds)
    /\ last = NoCall
    /\ admitted = [k \in Keys |-> <<>>]
    /\ calls = 0
    /\ threads = [t \in 1 .. NumThreads |-> Idle]
    /\ http = NoRequest
    /\ ModuleInit
    /\ inflight = [q \in 1 .. NumRequests |-> NoInflight]
    /\ SessionManagerInit(TimeoutMinutes)
    /\ retry \in { [NoRetry EXCEPT !.pc = "for", !.max_retries = args.max_retries,
                                   !.initial_delay = args.initial_delay,
                                   !.backoff_factor = args.backoff_factor,
                                   !.max_delay = args.max_delay,
                                   !.delay = args.initial_delay] : args \in RetryArgs }

NextRetry ==
    \/ R_For
    \/ \E ok \in BOOLEAN : R_Try(ok)
    \/ R_Sleep
    \/ R_Raise

SpecRetry == InitRetry /\ [][NextRetry]_vars

\* ------------------------------------------------ the global session manager
\* Threads inside get_session_manager(), which takes no lock: the test of the
\* global, the construction with the assignment, and the return, which loads
\* the global again, are separate steps.
G_Call(t) ==
    /\ callers[t].pc = "idle"
    /\ callers' = [callers EXCEPT ![t] = [pc |-> "test", clean |-> TRUE]]
    /\ UNCHANGED <<_global_session_manager, managers, returned, before>>
    /\ UNCHANGED <<_sessions, _session_timeout_minutes, utcnow, slast, born, scalls,
                   lockvars, httpvars, ratevars, askvars, retryvars>>

\* if _global_session_manager is None
test_is_none(g) == g = None

G_Test(t) ==
    /\ callers[t].pc = "test"
    /\ callers' = [callers EXCEPT ![t].pc =
            IF test_is_none(_global_session_manager) THEN "new" ELSE "return"]
    /\ UNCHANGED <<_global_session_manager, managers, returned, before>>
    /\ UNCHANGED <<_sessions, _session_timeout_minutes, utcnow, slast, born, scalls,
                   lockvars, httpvars, ratevars, askvars, retryvars>>

\* _global_session_manager = SessionManager()
G_New(t) ==
    /\ callers[t].pc = "new"
    /\ Len(managers) < MaxManagers
    /\ managers' = Append(managers, [k \in {} |-> NoneStr])
    /\ _global_session_manager' = Len(managers) + 1
    /\ callers' = [callers EXCEPT ![t].pc = "return"]
    /\ UNCHANGED <<returned, before>>
    /\ UNCHANGED <<_sessions, _session_timeout_minutes, utcnow, slast, born, scalls,
                   lockvars, httpvars, ratevars, askvars, retryvars>>

\* return _global_session_manager
G_Return(t) ==
    /\ callers[t].pc = "return"
    /\ returned' = IF callers[t].clean
                   THEN returned \cup {_global_session_manager} ELSE returned
    /\ callers' = [callers EXCEPT ![t] = IdleCaller]
    /\ UNCHANGED <<_global_session_manager, managers, before>>
    /\ UNCHANGED <<_sessions, _session_timeout_minutes, utcnow, slast, born, scalls,
                   lockvars, httpvars, ratevars, askvars, retryvars>>

\* reset_session_manager(); the calls it falls into are no longer calls
\* "with no reset in between"
G_Reset ==
    /\ _global_session_manager' = None
    /\ returned' = {}
    /\ before' = 1 .. Len(managers)
    /\ callers' = [t \in 1 .. NumCallers |->
            IF callers[t].pc = "idle" THEN callers[t]
            ELSE [callers[t] EXCEPT !.clean = FALSE]]
    /\ UNCHANGED managers
    /\ UNCHANGED <<_sessions, _session_timeout_minutes, utcnow, slast, born, scalls,
                   lockvars, httpvars, ratevars, askvars, retryvars>>

ManagerUuids == {"u1", "u2"}

\* a caller that was handed the object m creates a session in it; uuid4
\* does not return an identifier twice
G_Create(m, task_type) ==
    /\ m \in returned \cap (1 .. Len(managers))
    /\ \E u \in ManagerUuids, R \in SameReads(utcnow, 2) :
        /\ \A n \in 1 .. Len(managers) : u \notin DOMAIN managers[n]
        /\ managers' = [managers EXCEPT ![m] =
                create_session(@, task_type, NoneStr, u, R, 1).sessions]
    /\ UNCHANGED <<_global_session_manager, callers, returned, before>>
    /\ UNCHANGED <<_sessions, _session_timeout_minutes, utcnow, slast, born, scalls,
                   lockvars, httpvars, ratevars, askvars, retryvars>>

NextGlobal ==
    \/ \E t \in 1 .. NumCallers :
          G_Call(t) \/ G_Test(t) \/ G_New(t) \/ G_Return(t)
    \/ G_Reset
    \/ \E m \in 1 .. MaxManagers : G_Create(m, "symptom_analysis")

SpecGlobal == InitSess /\ [][NextGlobal]_vars

\* ------------------------------------------------ constructor arguments
\* RateLimiter.__init__ and SessionManager.__init__ store the arguments they
\* are given; the callers are free in what they pass.

\* (requests_per_minute, requests_per_hour, block_duration_seconds) as passed
\* to RateLimiter(...)
LimiterArgs == { <<1, 2, 30>>, <<0, 2, 30>>, <<1, -1, 30>>, <<1, 2, 0>> }

\* session_timeout_minutes as passed to SessionManager(...)
TimeoutArgs == { 1, 0, -1 }

\* RateLimiter(*args) and SessionManager(session_timeout_minutes=timeout)
InitArgs ==
    /\ \E args \in LimiterArgs :
        /\ requests_per_minute = args[1]
        /\ requests_per_hour = args[2]
        /\ block_duration_seconds = args[3]
    /\ ip_data = [k \in {} |-> NewEntry]
    /\ clock = Secs(StartSeconds)
    /\ last = NoCall
    /\ admitted = [k \in Keys |-> <<>>]
    /\ calls = 0
    /\ threads = [t \in 1 .. NumThreads |-> Idle]
    /\ http = NoRequest
    /\ ModuleInit
    /\ inflight = [q \in 1 .. NumRequests |-> NoInflight]
    /\ retry = NoRetry
    /\ SessionManagerInit(TimeoutArgs)

\* the managers serve: is_allowed for the client, sessions created and read
NextArgs ==
    \/ Admit(ArgsClient)
    \/ \E tt \in TaskTypes : CreateSession(tt, NoneStr)
    \/ \E id \in Uuids : GetSession(id)

SpecArgs == InitArgs /\ [][NextArgs]_vars

\* ------------------------------------------------------------- properties
\* the step just taken is an is_allowed(k) call / an unblock_ip call
AdmitStep(k) == last'.op = "is_allowed" /\ last'.key = k /\ calls' = calls + 1
UnblockStep == last'.op = "unblock_ip" /\ calls' = calls

\* number of timestamps of the sequence h in the window (t - w seconds, t]
InWindow(h, t, w) == Cardinality({j \in DOMAIN h : h[j] > t - Secs(w) /\ h[j] <= t})

\* C1: for every key, the requests admitted within any 60-second window
\* (open at its old end, as the code's strict comparison makes it) never
\* number more than the per-minute limit, whatever Admit, Unblock,
\* ClearAllBlocks calls were made and however the clock advanced.
C1_MinuteQuota ==
    \A k \in Keys : \A i \in DOMAIN admitted[k] :
        InWindow(admitted[k], admitted[k][i], MinuteWindowSeconds) <= requests_per_minute

\* the per-minute limit of 2 is used up and the next request has been denied for it
C1_Witness ==
    /\ last.op = "is_allowed" /\ last.path = "minute"
    /\ requests_per_minute = 2
    /\ InWindow(admitted[last.key], clock, MinuteWindowSeconds) = 2

\* C2: when several callers are inside Admit on one key at once, starting
\* from an empty log, exactly limit-many of them are admitted and all the
\* others are denied, in every interleaving.
C2_ExactlyLimitAdmitted ==
    (\A t \in 1 .. NumThreads : threads[t].pc = "done" /\ threads[t].ip = threads[1].ip)
        => Cardinality({t \in 1 .. NumThreads : threads[t].allowed})
             = Min(NumThreads, Min(requests_per_minute, requests_per_hour))

\* C3: while a key's blocked_until is set to T, an Admit on that key that is
\* over before T is denied, appends no timestamp and leaves blocked_until
\* equal to T.
C3_BlockedStaysDenied ==
    [][\A k \in Keys :
          ( /\ k \in DOMAIN ip_data
            /\ ip_data[k].blocked_until # None
            /\ AdmitStep(k)
            /\ clock' < ip_data[k].blocked_until )
          => ( /\ ~last'.allowed
               /\ ip_data'[k].requests = ip_data[k].requests
               /\ ip_data'[k].blocked_until = ip_data[k].blocked_until )]_vars

\* a call on a blocked key has just been denied, the block still running
C3_Witness ==
    /\ last.op = "is_allowed" /\ last.path = "blocked" /\ ~last.allowed
    /\ clock < ip_data[last.key].blocked_until
    /\ ip_data[last.key].requests # <<>>

\* C4: an Admit on a key that is not blocked and has, at the time the call
\* returns, at least per-minute-limit timestamps in the last 60 s or at least
\* per-hour-limit timestamps in the last 3600 s is denied, sets blocked_until
\* to (a clock value read during the call) + the configured block duration,
\* and appends no timestamp.
C4_DenyAndBlock ==
    [][\A k \in Keys :
          ( /\ k \in DOMAIN ip_data
            /\ (ip_data[k].blocked_until = None \/ ip_data[k].blocked_until <= clock)
            /\ AdmitStep(k)
            /\ \/ CountAfter(ip_data[k].requests, clock' - Secs(MinuteWindowSeconds))
                    >= requests_per_minute
               \/ CountAfter(ip_data[k].requests, clock' - Secs(HourWindowSeconds))
                    >= requests_per_hour )
          => ( /\ ~last'.allowed
               /\ ip_data'[k].blocked_until >= clock + Secs(block_duration_seconds)
               /\ ip_data'[k].blocked_until <= clock' + Secs(block_duration_seconds)
               /\ Len(ip_data'[k].requests) <= Len(ip_data[k].requests)
               /\ \A i \in DOMAIN ip_data'[k].requests :
                     \E j \in DOMAIN ip_data[k].requests :
                         ip_data'[k].requests[i] = ip_data[k].requests[j] )]_vars

\* a request that is over both limits at once has just been denied and blocked
C4_Witness ==
    /\ last.op = "is_allowed" /\ last.path = "minute"
    /\ CountAfter(ip_data[last.key].requests, clock - Secs(HourWindowSeconds))
         >= requests_per_hour
    /\ ip_data[last.key].blocked_until > clock

\* C5: for every key, the requests admitted within any 3600-second window
\* never number more than the per-hour limit, also when the per-minute limit
\* is never reached.
C5_HourQuota ==
    \A k \in Keys : \A i \in DOMAIN admitted[k] :
        InWindow(admitted[k], admitted[k][i], HourWindowSeconds) <= requests_per_hour

\* the per-hour limit is used up by requests a minute apart and the next one is denied for it
C5_Witness ==
    /\ last.op = "is_allowed" /\ last.path = "hour"
    /\ InWindow(admitted[last.key], clock, HourWindowSeconds) = requests_per_hour
    /\ InWindow(admitted[last.key], clock, MinuteWindowSeconds) < requests_per_minute

\* C6: an admission reports X-RateLimit-Remaining-Minute = per-minute limit
\* minus the key's timestamps of the last 60 s, this request counted, and
\* X-RateLimit-Remaining-Hour likewise over 3600 s; the values stay below the
\* limits, and run down to 0 on the limit-th rapid call.
C6_RemainingOnAdmit ==
    (last.op = "is_allowed" /\ last.allowed) =>
        LET reqs == ip_data[last.key].requests IN
        /\ last.headers["X-RateLimit-Remaining-Minute"]
             = requests_per_minute - CountAfter(reqs, last.hdr - Secs(MinuteWindowSeconds))
        /\ last.headers["X-RateLimit-Remaining-Hour"]
             = requests_per_hour - CountAfter(reqs, last.hdr - Secs(HourWindowSeconds))
        /\ last.headers["X-RateLimit-Remaining-Minute"] \in 0 .. requests_per_minute - 1
        /\ last.headers["X-RateLimit-Remaining-Hour"] \in 0 .. requests_per_hour - 1
        /\ last.headers["X-RateLimit-Limit-Minute"] = requests_per_minute
        /\ last.headers["X-RateLimit-Limit-Hour"] = requests_per_hour

\* the second of two rapid calls under a limit of 2 has been admitted with 0 remaining
C6_Witness ==
    /\ last.op = "is_allowed" /\ last.allowed
    /\ requests_per_minute = 2
    /\ Len(ip_data[last.key].requests) = 2
    /\ last.headers["X-RateLimit-Remaining-Minute"] = 0

\* C7: every denial reports X-RateLimit-Remaining-Minute = 0 and
\* X-RateLimit-Remaining-Hour = 0.
C7_ZeroRemainingOnDenial ==
    (last.op = "is_allowed" /\ ~last.allowed) =>
        /\ last.headers["X-RateLimit-Remaining-Minute"] = 0
        /\ last.headers["X-RateLimit-Remaining-Hour"] = 0

\* C8: every denial carries Retry-After = max(1, whole seconds of
\* blocked_until - now); on the denial that sets the block it equals the
\* configured block duration; an admission carries no Retry-After.
C8_RetryAfter ==
    (last.op = "is_allowed") =>
        IF last.allowed
        THEN "Retry-After" \notin DOMAIN last.headers
        ELSE /\ "Retry-After" \in DOMAIN last.headers
             /\ last.headers["Retry-After"]
                  = Max(1, PyInt(ip_data[last.key].blocked_until - last.hdr))
             /\ last.path \in {"minute", "hour"}
                  => last.headers["Retry-After"] = block_duration_seconds

\* C9: an Admit made once the clock has passed the key's blocked_until
\* clears that block and is evaluated on the windows alone: it is admitted
\* if both window counts are below the limits when the call starts, denied
\* (with a fresh block) if one of them is at its limit when the call returns;
\* with a block duration of 3600 s or more it is always admitted and the log
\* then holds this request only.
C9_FreshAfterExpiry ==
    [][\A k \in Keys :
          ( /\ k \in DOMAIN ip_data
            /\ ip_data[k].blocked_until # None
            /\ ip_data[k].blocked_until <= clock
            /\ AdmitStep(k) )
          => LET reqs == ip_data[k].requests IN
             /\ last'.allowed => ip_data'[k].blocked_until = None
             /\ ~last'.allowed =>
                   ip_data'[k].blocked_until >= clock + Secs(block_duration_seconds)
             /\ ( /\ CountAfter(reqs, clock - Secs(MinuteWindowSeconds)) < requests_per_minute
                  /\ CountAfter(reqs, clock - Secs(HourWindowSeconds)) < requests_per_hour )
                  => last'.allowed
             /\ ( \/ CountAfter(reqs, clock' - Secs(MinuteWindowSeconds)) >= requests_per_minute
                  \/ CountAfter(reqs, clock' - Secs(HourWindowSeconds)) >= requests_per_hour )
                  => ~last'.allowed
             /\ block_duration_seconds >= HourWindowSeconds
                  => (last'.allowed /\ Len(ip_data'[k].requests) = 1)]_vars

\* the first call after a one-hour block ran out has been admitted
C9_Witness ==
    /\ last.op = "is_allowed" /\ last.expired /\ last.allowed
    /\ block_duration_seconds >= HourWindowSeconds
    /\ ip_data[last.key].requests = <<admitted[last.key][Len(admitted[last.key])]>>

\* C10: Unblock(key) clears the key's blocked_until if one is set, returns
\* true exactly when the key is tracked and had one (which is exactly when
\* the state changed), changes no timestamp log, creates no entry and leaves
\* every other key's entry as it was.
C10_UnblockFrame ==
    [][UnblockStep =>
         LET k == last'.key IN
         /\ DOMAIN ip_data' = DOMAIN ip_data
         /\ \A j \in DOMAIN ip_data :
               /\ ip_data'[j].requests = ip_data[j].requests
               /\ j # k => ip_data'[j] = ip_data[j]
         /\ k \in DOMAIN ip_data => ip_data'[k].blocked_until = None
         /\ (last'.ret = 1) <=> (k \in DOMAIN ip_data /\ ip_data[k].blocked_until # None)
         /\ (last'.ret = 1) <=> (ip_data' # ip_data)]_vars

\* a blocked key with requests in its log has just been unblocked, another key being tracked as well
C10_Witness ==
    /\ last.op = "unblock_ip" /\ last.ret = 1
    /\ ip_data[last.key].requests # <<>>
    /\ ip_data[last.key].blocked_until = None
    /\ \E j \in DOMAIN ip_data : j # last.key /\ ip_data[j].requests # <<>>

\* C11: when a key is blocked and the numbers of its timestamps in the last
\* 60 s and in the last 3600 s are below the two limits, an Unblock of the key
\* directly followed by an Admit of the key admits the request, also when the
\* block_until that Unblock cleared still lies in the future.
C11_AdmitAfterUnblock ==
    [][\A k \in Keys :
          ( /\ last.op = "unblock_ip" /\ last.key = k /\ last.ret = 1
            /\ AdmitStep(k)
            /\ CountAfter(ip_data[k].requests, clock - Secs(MinuteWindowSeconds))
                  < requests_per_minute
            /\ CountAfter(ip_data[k].requests, clock - Secs(HourWindowSeconds))
                  < requests_per_hour )
          => ( /\ last'.allowed
               /\ last'.path = "ok"
               /\ ip_data'[k].blocked_until = None
               /\ ip_data'[k].requests # <<>> )]_vars

\* a key blocked for an hour was unblocked a minute later and its next request
\* has been admitted, long before the block would have run out
C11_Witness ==
    /\ last.op = "is_allowed" /\ last.allowed
    /\ last.until # None /\ clock < last.until
    /\ Len(ip_data[last.key].requests) = 2

\* C12: ClearAllBlocks sets the blocked_until of every entry to None and
\* returns the number of keys that were blocked just before the call, i.e. the
\* currently_blocked_ips that Stats would have reported at that moment;
\* afterwards no key is blocked and no timestamp log has changed.
C12_ClearAllBlocksCount ==
    [][(last'.op = "clear_all_blocks") =>
         /\ last'.ret = get_stats(ip_data, requests_per_minute, requests_per_hour,
                                  block_duration_seconds, clock).ret.currently_blocked_ips
         /\ DOMAIN ip_data' = DOMAIN ip_data
         /\ \A k \in DOMAIN ip_data :
               /\ ip_data'[k].blocked_until = None
               /\ ip_data'[k].requests = ip_data[k].requests]_vars

\* the step just taken is a call of the SessionManager method op on the id k
SessionStep(op, k) == slast'.op = op /\ slast'.id = k /\ scalls' = scalls + 1

\* the number of records an update_session call with these messages appends
Appended(user_message, assistant_response) ==
    (IF user_message \in {NoneStr, ""} THEN 0 ELSE 1)
      + (IF assistant_response \in {NoneStr, ""} THEN 0 ELSE 1)

\* C13: GetSession on an id that is in the manager returns None exactly when
\* now - last_accessed > the timeout, now being the clock as the call reads it,
\* and then the id is no longer in the manager; an UpdateSession on an id that
\* is absent or expired leaves a context created during that call, with no
\* switch log and with only that call's messages in its history.
C13_ExpiredIsGone ==
    [][\A k \in SessionIds \cup Uuids :
         /\ (SessionStep("get_session", k) /\ k \in DOMAIN _sessions) =>
               /\ slast'.now >= utcnow /\ slast'.now <= utcnow'
               /\ ~slast'.ok <=> (slast'.now - _sessions[k].last_accessed
                                     > Secs(60 * _session_timeout_minutes))
               /\ slast'.ok <=> k \in DOMAIN _sessions'
         /\ ( /\ SessionStep("update_session", k)
              /\ \/ k \notin DOMAIN _sessions
                 \/ utcnow - _sessions[k].last_accessed > Secs(60 * _session_timeout_minutes) )
             => /\ k \in DOMAIN _sessions'
                /\ _sessions'[k].created_at >= utcnow
                /\ k \in DOMAIN _sessions => _sessions'[k].created_at > _sessions[k].created_at
                /\ "context_switches" \notin DOMAIN _sessions'[k].metadata
                /\ Len(_sessions'[k].message_history)
                     = Appended(slast'.user_message, slast'.assistant_response)
                /\ \A i \in DOMAIN _sessions'[k].message_history :
                      _sessions'[k].message_history[i].timestamp >= utcnow]_vars

\* get_session has found a session expired and removed it, and the
\* update_session that followed has created the session anew with its two messages
C13_Witness ==
    /\ slast.op = "update_session" /\ slast.after = "expired" /\ slast.created
    /\ Len(_sessions[slast.id].message_history) = 2
    /\ _sessions[slast.id].created_at = utcnow

\* the session k is in the manager and its inactivity does not exceed the timeout at time t
Live(k, t) ==
    /\ k \in DOMAIN _sessions
    /\ t - _sessions[k].last_accessed <= Secs(60 * _session_timeout_minutes)

\* C14: an UpdateSession on a live session with the task type the session
\* has leaves the switch log as it is; with another task type it appends
\* exactly one record to the end of the log, from = the task type the session
\* had, to = the new one, and the records before it stay as they were.
C14_SwitchRecords ==
    [][\A k \in SessionIds \cup Uuids :
         (SessionStep("update_session", k) /\ Live(k, utcnow')) =>
            LET old == context_switches(_sessions[k])
                new == context_switches(_sessions'[k])
            IN  /\ _sessions'[k].task_type = slast'.task_type
                /\ IF slast'.task_type = _sessions[k].task_type
                   THEN _sessions'[k].metadata = _sessions[k].metadata
                   ELSE /\ Len(new) = Len(old) + 1
                        /\ SubSeq(new, 1, Len(old)) = old
                        /\ new[Len(new)].from = _sessions[k].task_type
                        /\ new[Len(new)].to = slast'.task_type
                        /\ new[Len(new)].timestamp >= utcnow
                        /\ new[Len(new)].timestamp <= utcnow']_vars

\* a session has been switched to the other task type and back again
C14_Witness ==
    /\ slast.op = "update_session" /\ slast.switched /\ ~slast.created
    /\ Len(context_switches(_sessions[slast.id])) = 2
    /\ context_switches(_sessions[slast.id])[2].to = slast.task_type
    /\ context_switches(_sessions[slast.id])[1].to # slast.task_type

\* C15: in every reachable state, for every session in the manager, the
\* switch log has one record per task-type change asked of the session since
\* it was created, the task type is the "to" of the last record (the task
\* type the session was created with if there is none), and every record
\* starts from the task type the record before it led to (the first one from
\* the task type of creation).
C15_SwitchLogInvariant ==
    \A k \in DOMAIN _sessions :
        LET log == context_switches(_sessions[k]) IN
        /\ k \in DOMAIN born
        /\ Len(log) = born[k].changes
        /\ _sessions[k].task_type
             = IF log = <<>> THEN born[k].task_type ELSE log[Len(log)].to
        /\ \A i \in DOMAIN log :
              /\ log[i].from = IF i = 1 THEN born[k].task_type ELSE log[i - 1].to
              /\ log[i].from # log[i].to

\* a session holds two switch records and is back at the task type it was created with
C15_Witness ==
    \E k \in DOMAIN _sessions :
        /\ born[k].changes = 2
        /\ Len(context_switches(_sessions[k])) = 2
        /\ _sessions[k].task_type = born[k].task_type
        /\ _sessions[k].message_history # <<>>

\* C16: an UpdateSession on a live session appends to the message history a
\* "user" record if user_message is non-empty, then an "assistant" record
\* with tools_used if assistant_response is non-empty, and nothing else: the
\* history grows by the number of non-empty messages and the records it held
\* stay where they were. No call other than one that creates the session
\* anew changes the records a session holds.
C16_HistoryAppend ==
    [][\A k \in SessionIds \cup Uuids :
         /\ (SessionStep("update_session", k) /\ Live(k, utcnow')) =>
               LET old == _sessions[k].message_history
                   new == _sessions'[k].message_history
                   n == Appended(slast'.user_message, slast'.assistant_response)
                   stamped(m) == m.timestamp >= utcnow /\ m.timestamp <= utcnow'
               IN  /\ Len(new) = Len(old) + n
                   /\ SubSeq(new, 1, Len(old)) = old
                   /\ slast'.user_message \notin {NoneStr, ""} =>
                         /\ new[Len(old) + 1].role = "user"
                         /\ new[Len(old) + 1].content = slast'.user_message
                         /\ new[Len(old) + 1].tools_used = <<>>
                         /\ stamped(new[Len(old) + 1])
                   /\ slast'.assistant_response \notin {NoneStr, ""} =>
                         /\ new[Len(new)].role = "assistant"
                         /\ new[Len(new)].content = slast'.assistant_response
                         /\ new[Len(new)].tools_used
                              = (IF slast'.tools_used = NoneList THEN <<>> ELSE slast'.tools_used)
                         /\ stamped(new[Len(new)])
         /\ ( /\ k \in DOMAIN _sessions /\ k \in DOMAIN _sessions'
              /\ slast'.op # "create_session" /\ ~slast'.created )
             => /\ Len(_sessions'[k].message_history) >= Len(_sessions[k].message_history)
                /\ SubSeq(_sessions'[k].message_history, 1, Len(_sessions[k].message_history))
                     = _sessions[k].message_history]_vars

\* a session whose history began with an assistant record (the user message
\* was empty) has been given a user record and an assistant record with its tool
C16_Witness ==
    /\ slast.op = "update_session" /\ ~slast.created
    /\ Len(_sessions[slast.id].message_history) = 3
    /\ _sessions[slast.id].message_history[1].role = "assistant"
    /\ _sessions[slast.id].message_history[2].role = "user"
    /\ _sessions[slast.id].message_history[3].tools_used = <<"doctor_locator_tool">>

\* C17: an UpdateSession on an id that has no live session (absent, or
\* expired) creates the session with the task type given and with no switch
\* record, then appends the messages given; every UpdateSession returns a
\* context, which is the one the manager then holds under the id.
C17_UpdateCreates ==
    [][\A k \in SessionIds \cup Uuids :
         SessionStep("update_session", k) =>
            /\ slast'.ok
            /\ k \in DOMAIN _sessions'
            /\ _sessions'[k].session_id = k
            /\ _sessions'[k].task_type = slast'.task_type
            /\ _sessions'[k].last_accessed >= utcnow
            /\ ~Live(k, utcnow) =>
                  /\ slast'.created /\ ~slast'.switched
                  /\ context_switches(_sessions'[k]) = <<>>
                  /\ [i \in DOMAIN _sessions'[k].message_history |->
                         _sessions'[k].message_history[i].content]
                       = SelectSeq(<<slast'.user_message, slast'.assistant_response>>,
                                   LAMBDA m : m \notin {NoneStr, ""})
                  /\ _sessions'[k].created_at >= utcnow]_vars

\* update_session has created a session that did not exist, on the second
\* task type, with the one message it was given
C17_Witness ==
    /\ slast.op = "update_session" /\ slast.created /\ ~slast.expired
    /\ slast.after = ""
    /\ slast.task_type = "doctor_matching"
    /\ Len(_sessions[slast.id].message_history) = 1
    /\ _sessions[slast.id].task_type = "doctor_matching"

\* C18: CreateSession returns the id it was given, or a generated one if it
\* was given none, and leaves that id bound to a context with the task type
\* given, an empty history and no switch log, whatever session the id had
\* before; the sessions of the other ids stay as they were.
C18_CreateOverwrites ==
    [][(slast'.op = "create_session" /\ scalls' = scalls + 1) =>
         LET id == slast'.ret IN
         /\ slast'.session_id # NoneStr => id = slast'.session_id
         /\ slast'.session_id = NoneStr => id \in Uuids
         /\ DOMAIN _sessions' = DOMAIN _sessions \cup {id}
         /\ _sessions'[id].session_id = id
         /\ _sessions'[id].task_type = slast'.task_type
         /\ _sessions'[id].message_history = <<>>
         /\ _sessions'[id].metadata = EmptyMetadata
         /\ _sessions'[id].created_at >= utcnow
         /\ _sessions'[id].last_accessed >= _sessions'[id].created_at
         /\ _sessions'[id].last_accessed <= utcnow'
         /\ \A j \in DOMAIN _sessions \ {id} : _sessions'[j] = _sessions[j]]_vars

\* create_session has been called on the id of a session that held messages
C18_Witness ==
    /\ slast.op = "create_session" /\ slast.overwrote
    /\ slast.session_id = slast.ret
    /\ _sessions[slast.ret].message_history = <<>>

\* C19: a GetSession on a session that is in the manager, made no later than
\* the timeout after its last access, returns the context and sets
\* last_accessed to the clock as read during the call, changing nothing else
\* of the session: read at intervals no longer than the timeout, a session
\* stays, however long ago it was created.
C19_ReadKeepsAlive ==
    [][\A k \in SessionIds \cup Uuids :
         (SessionStep("get_session", k) /\ Live(k, utcnow)) =>
            /\ slast'.ok /\ ~slast'.expired
            /\ k \in DOMAIN _sessions'
            /\ _sessions'[k].last_accessed >= utcnow
            /\ _sessions'[k].last_accessed >= slast'.now
            /\ _sessions'[k].last_accessed <= utcnow'
            /\ [_sessions'[k] EXCEPT !.last_accessed = _sessions[k].last_accessed]
                 = _sessions[k]
            /\ utcnow' - _sessions'[k].last_accessed
                 <= Secs(60 * _session_timeout_minutes)]_vars

\* a session created longer ago than the timeout has just been read and returned
C19_Witness ==
    /\ slast.op = "get_session" /\ slast.ok
    /\ slast.now - _sessions[slast.id].created_at > Secs(60 * _session_timeout_minutes)
    /\ _sessions[slast.id].last_accessed >= slast.now

\* C20: DeleteSession returns true exactly when the id is in the manager,
\* and then removes that session and no other; when it returns false the
\* sessions are as they were. Directly after a DeleteSession that returned
\* true, a GetSession on the id returns None and a DeleteSession on it
\* returns false.
C20_DeleteSession ==
    [][\A k \in SessionIds \cup Uuids :
         /\ SessionStep("delete_session", k) =>
               /\ slast'.ok <=> k \in DOMAIN _sessions
               /\ DOMAIN _sessions' = DOMAIN _sessions \ {k}
               /\ \A j \in DOMAIN _sessions' : _sessions'[j] = _sessions[j]
               /\ ~slast'.ok => _sessions' = _sessions
         /\ ( /\ slast.op = "delete_session" /\ slast.id = k /\ slast.ok
              /\ \/ SessionStep("get_session", k)
                 \/ SessionStep("delete_session", k) )
             => (~slast'.ok /\ _sessions' = _sessions)]_vars

\* a session has been deleted and a second delete_session has returned false
C20_Witness ==
    /\ slast.op = "delete_session" /\ ~slast.ok
    /\ slast.after = "deleted"
    /\ slast.id \notin DOMAIN _sessions

\* the session k is stored and its inactivity exceeds the timeout at time t
Expired(k, t) ==
    /\ k \in DOMAIN _sessions
    /\ t - _sessions[k].last_accessed > Secs(60 * _session_timeout_minutes)

\* the reads of a call that is over within the tick the clock is at
NowReads == [i \in 1 .. MaxReads |-> utcnow]

\* C21: a call of GetSession, UpdateSession, DeleteSession, HasSwitched,
\* SwitchHistory, Stats or the active-session count that finds a session
\* stored whose inactivity exceeds the timeout returns what it would return,
\* and leaves the sessions it would leave, if that id were not stored.
C21_ExpiredLikeAbsent ==
    [][\A k \in SessionIds \cup Uuids :
        Expired(k, utcnow) =>
          LET A == DictDel(_sessions, k)
              tm == _session_timeout_minutes
          IN
          /\ SessionStep("get_session", k) =>
                /\ slast'.ok = get_session(A, k, tm, NowReads, 1).found
                /\ _sessions' = A
          /\ SessionStep("update_session", k) =>
                _sessions' = update_session(A, k, slast'.task_type, slast'.user_message,
                                            slast'.assistant_response, slast'.tools_used,
                                            tm, NowReads, 1).sessions
          /\ SessionStep("delete_session", k) =>
                /\ slast'.ok = delete_session(A, k).ret
                /\ _sessions' = A
          /\ SessionStep("has_context_switched", k) =>
                /\ slast'.ok = has_context_switched(A, k, tm, NowReads, 1).ret
                /\ _sessions' = A
          /\ SessionStep("get_context_switches", k) =>
                /\ slast'.switches = get_context_switches(A, k, tm, NowReads, 1).ret
                /\ _sessions' = A
          /\ SessionStep("get_session_stats", NoneStr) =>
                /\ slast'.stats = get_session_stats(A, tm, NowReads, 1).ret
                /\ _sessions' = get_session_stats(A, tm, NowReads, 1).sessions
          /\ SessionStep("get_active_session_count", NoneStr) =>
                /\ slast'.count = get_active_session_count(A, tm, NowReads, 1).ret
                /\ _sessions' = get_active_session_count(A, tm, NowReads, 1).sessions]_vars

\* the step just taken is a create_session or an update_session for k
StartsSession(k) ==
    SessionStep("create_session", k) \/ SessionStep("update_session", k)

\* C22: a session that is not stored, or whose inactivity exceeds the
\* timeout, is not handed out again by anything but a create_session or an
\* update_session for its id: over every other step (get_session,
\* has_context_switched, get_context_switches, delete_session, the statistics,
\* the cleanup, time passing) an id that is not stored stays not stored and an
\* expired one stays expired or goes; the session a create_session or
\* update_session then leaves is a new one, created during that call.
C22_GoneStaysGone ==
    [][\A k \in SessionIds \cup Uuids :
        ~Live(k, utcnow) =>
          /\ ~StartsSession(k) =>
                /\ k \notin DOMAIN _sessions => k \notin DOMAIN _sessions'
                /\ k \in DOMAIN _sessions' =>
                      /\ _sessions'[k] = _sessions[k]
                      /\ utcnow' - _sessions'[k].last_accessed
                            > Secs(60 * _session_timeout_minutes)
          /\ k \in DOMAIN _sessions' /\ StartsSession(k) =>
                /\ _sessions'[k].created_at >= utcnow
                /\ "context_switches" \notin DOMAIN _sessions'[k].metadata]_vars

\* a session has been deleted, or found expired and removed, a view of it has
\* been asked for after that, and the id is still not stored
C22_Witness ==
    /\ slast.op \in {"has_context_switched", "get_context_switches"}
    /\ slast.after \in {"deleted", "expired"}
    /\ ~slast.ok
    /\ slast.id \notin DOMAIN _sessions

\* the threads whose update_session has returned
Returned == { w \in 1 .. NumThreads : workers[w].pc = "done" }

\* the threads that are inside the with block of update_session
Inside == { w \in 1 .. NumThreads : workers[w].pc \notin {"idle", "lock", "done"} }

\* the orders in which the calls of the threads in D can be made one by one
OrdersOf(D) ==
    { o \in [1 .. Cardinality(D) -> D] : \A w \in D : \E n \in DOMAIN o : o[n] = w }

\* the sessions left by the update_session calls of the threads in order o,
\* made one after the other on the sessions S
RECURSIVE RunInOrder(_, _, _)
RunInOrder(S, o, n) ==
    IF n > Cardinality(DOMAIN o) THEN S
    ELSE LET c == workers[o[n]]
         IN  RunInOrder(update_session(S, c.session_id, c.task_type, c.user_message,
                                       c.assistant_response, c.tools_used,
                                       _session_timeout_minutes, NowReads, 1).sessions,
                        o, n + 1)

\* C23: update_session calls made by several threads at once on one session
\* exclude each other: at most one thread is inside the call, and whenever no
\* thread is inside, the sessions are what the calls that have returned leave
\* when they are made one after the other in some order; so each call's user
\* and assistant records are next to each other in the history, no record is
\* lost, and the switch log has one record for every change of task type
\* between two records of the history that follow each other.
C23_UpdatesSerialize ==
    /\ Cardinality(Inside) <= 1
    /\ \A w \in Inside : _lock = w
    /\ Inside = {} =>
          /\ \E o \in OrdersOf(Returned) :
                _sessions = RunInOrder([k \in {} |-> NoneStr], o, 1)
          /\ \A k \in DOMAIN _sessions :
              LET h == _sessions[k].message_history IN
              /\ Len(h) = 2 * Cardinality({ w \in Returned : workers[w].session_id = k })
              /\ \A w \in Returned : workers[w].session_id = k =>
                    \E n \in 1 .. Len(h) - 1 :
                        /\ h[n].role = "user" /\ h[n].content = workers[w].user_message
                        /\ h[n + 1].role = "assistant"
                        /\ h[n + 1].content = workers[w].assistant_response

\* all the threads have returned from update_session, not all with the same
\* task type, and the history holds the records of them all
C23_Witness ==
    /\ Returned = 1 .. NumThreads
    /\ \E v, w \in Returned : workers[v].task_type # workers[w].task_type
    /\ \A k \in SessionIds : Len(_sessions[k].message_history) = 2 * NumThreads
    /\ \A k \in SessionIds : context_switches(_sessions[k]) # <<>>

\* the sessions that are stored and not expired at time t
LiveIds(t) == { k \in DOMAIN _sessions : ~Expired(k, t) }

\* the number a dict of counts holds for tt: 0 when tt is not a key
CountFor(d, tt) == IF tt \in DOMAIN d THEN d[tt] ELSE 0

\* C24: get_session_stats removes the expired sessions, leaves the others as
\* they are, and reports the sessions that remain: their number as
\* total_sessions, under every task type the number of them that have it now
\* (a task type none of them has is not a key; the counts add up to the
\* total), and as context_switches_total the lengths of their switch logs
\* added up.
C24_Stats ==
    [][SessionStep("get_session_stats", NoneStr) =>
        LET st == slast'.stats
            live == LiveIds(utcnow)
        IN
        /\ DOMAIN _sessions' = live
        /\ \A k \in live : _sessions'[k] = _sessions[k]
        /\ st.total_sessions = Cardinality(live)
        /\ DOMAIN st.sessions_by_task_type \subseteq TaskTypes
        /\ \A tt \in TaskTypes :
              /\ CountFor(st.sessions_by_task_type, tt)
                    = Cardinality({ k \in live : _sessions[k].task_type = tt })
              /\ tt \in DOMAIN st.sessions_by_task_type => st.sessions_by_task_type[tt] > 0
        /\ SumOver([tt \in TaskTypes |-> CountFor(st.sessions_by_task_type, tt)], TaskTypes)
              = st.total_sessions
        /\ st.context_switches_total
              = SumOver([k \in live |-> Len(context_switches(_sessions[k]))], live)]_vars

\* get_session_stats has found two sessions, removed the one that had
\* expired and counted the other
C24_Witness ==
    /\ slast.op = "get_session_stats" /\ slast.expired
    /\ slast.stats.total_sessions = 1
    /\ \E tt \in TaskTypes : slast.stats.sessions_by_task_type = [x \in {tt} |-> 1]

\* C25: has_context_switched(id) returns true exactly when the session is
\* live and its switch log is not empty, get_context_switches(id) returns
\* that log, or the empty list when there is no live session, and a call of
\* either leaves the sessions as they were, the session's last_accessed and
\* its being stored included.
C25_ViewsReadOnly ==
    [][\A k \in SessionIds \cup Uuids :
        /\ SessionStep("has_context_switched", k) =>
              /\ slast'.ok <=> (Live(k, utcnow) /\ context_switches(_sessions[k]) # <<>>)
              /\ _sessions' = _sessions
        /\ SessionStep("get_context_switches", k) =>
              /\ slast'.switches = IF Live(k, utcnow) THEN context_switches(_sessions[k])
                                   ELSE <<>>
              /\ _sessions' = _sessions]_vars

\* C26: a create_session, get_session, update_session or delete_session
\* for one id leaves every session with another id as it is: stored or not
\* as before and, when stored, with the same task type, message history,
\* switch log and last_accessed.
C26_Isolation ==
    [][\A k \in SessionIds \cup Uuids :
        ( \/ SessionStep("create_session", k) \/ SessionStep("get_session", k)
          \/ SessionStep("update_session", k) \/ SessionStep("delete_session", k) )
        => \A j \in (SessionIds \cup Uuids) \ {k} :
              /\ j \in DOMAIN _sessions' <=> j \in DOMAIN _sessions
              /\ j \in DOMAIN _sessions => _sessions'[j] = _sessions[j]]_vars

\* two sessions are stored; an update_session has just recorded messages
\* in one of them, and the other has another task type and an empty history
C26_Witness ==
    /\ slast.op = "update_session"
    /\ slast.id \in DOMAIN _sessions
    /\ _sessions[slast.id].message_history # <<>>
    /\ \E j \in DOMAIN _sessions \ {slast.id} :
          /\ _sessions[j].task_type # _sessions[slast.id].task_type
          /\ _sessions[j].message_history = <<>>

\* C27: cleanup_expired_sessions removes the sessions whose inactivity
\* exceeds the timeout and no other, returns how many it has removed, and
\* leaves the sessions that remain as they were, last_accessed included; a
\* cleanup_expired_sessions that follows another with no time passing in
\* between removes nothing and returns 0.
C27_Cleanup ==
    [][SessionStep("cleanup_expired_sessions", NoneStr) =>
        /\ DOMAIN _sessions' = LiveIds(utcnow)
        /\ \A k \in LiveIds(utcnow) : _sessions'[k] = _sessions[k]
        /\ slast'.count = Cardinality(DOMAIN _sessions \ DOMAIN _sessions')
        /\ slast.op = "cleanup_expired_sessions" =>
              (slast'.count = 0 /\ _sessions' = _sessions)]_vars

\* cleanup_expired_sessions has found two sessions, removed the one that had
\* expired, returned 1 and left the other stored
C27_Witness ==
    /\ slast.op = "cleanup_expired_sessions"
    /\ slast.count = 1 /\ slast.expired
    /\ Cardinality(DOMAIN _sessions) = 1

\* C28: a RateLimiter that has answered an is_allowed call has a positive
\* per-minute limit, a positive per-hour limit and a positive block duration,
\* and a SessionManager that has answered a call has a positive timeout: the
\* constructors let no other configuration through.
C28_ConfigRejected ==
    /\ calls > 0 => /\ requests_per_minute > 0
                    /\ requests_per_hour > 0
                    /\ block_duration_seconds > 0
    /\ scalls > 0 => _session_timeout_minutes > 0

\* the step just taken is a request answered
RequestStep == calls' = calls + 1 /\ http'.status # 0

C30_UpdateOncePerRequest ==
    [][(RequestStep /\ http'.forwarded /\ http'.resolved) =>
        /\ http'.updates = 1
        /\ http'.session_id \in DOMAIN _sessions'
        /\ LET h == _sessions'[http'.session_id].message_history
               n == Len(h)
           IN  /\ n >= 2
               /\ h[n - 1].role = "user" /\ h[n - 1].content = http'.message
               /\ h[n].role = "assistant" /\ h[n].content = http'.response
               /\ http'.agent # "ok" =>
                     h[n].content \in { get_fallback_response(http'.task_type, e) :
                                           e \in {"llm_failure", "tool_failure"} }]_vars

\* C31: the empty string is never a key of the sessions or of the rate
\* limiter's entries, and a request to /ask that carries an empty session id
\* is answered with an error, without a session being resolved for it.
C31_EmptyIdRejected ==
    /\ "" \notin DOMAIN _sessions
    /\ "" \notin DOMAIN ip_data
    /\ (http.path = "/ask" /\ http.forwarded /\ http.asked = "") =>
          (http.status >= 400 /\ ~http.resolved)

\* C32: the calls of get_session_manager made since the latest reset (or
\* since the start) have all returned one and the same SessionManager object,
\* also when they overlap; that object is not one constructed before the
\* reset, and it holds none of the sessions of those earlier objects.
C32_OneManager ==
    /\ Cardinality(returned) <= 1
    /\ returned \subseteq (1 .. Len(managers)) \ before
    /\ \A m \in returned, b \in before :
          (m \in 1 .. Len(managers)) =>
             DOMAIN managers[m] \cap DOMAIN managers[b] = {}

\* the history of the shared session holds the exchange of request q: its
\* user message, followed by an assistant message
HoldsExchange(q) ==
    /\ SharedSessionId \in DOMAIN _sessions
    /\ LET h == _sessions[SharedSessionId].message_history
       IN  \E j \in 1 .. Len(h) - 1 :
              /\ h[j].role = "user"
              /\ h[j].content = inflight[q].request.message
              /\ h[j + 1].role = "assistant"

\* C33: of the requests that carry one session id unknown before and are
\* handled while the others are under way, every one whose handler has
\* answered (status 200) has its exchange in the history of the session: no
\* resolution discards what another request has created or recorded.
C33_BothExchangesKept ==
    \A q \in 1 .. NumRequests :
        (inflight[q].pc \in {"handled", "done"} /\ inflight[q].status = 200) =>
            HoldsExchange(q)

\* two requests have overlapped, both are answered, and the history holds
\* the four messages of their two exchanges
C33_Witness ==
    /\ \A q \in 1 .. 2 : inflight[q].pc = "done" /\ inflight[q].status = 200
    /\ \E q \in 1 .. 2 : inflight[q].seen >= 1
    /\ Len(_sessions[SharedSessionId].message_history) = 4

\* the sequence h is in non-decreasing order
NonDecreasing(h) == \A i \in 1 .. Len(h) - 1 : h[i] <= h[i + 1]

OldestAfter(h, t, w) == SeqMin(SelectSeq(h, LAMBDA r : r > t - Secs(w)))

\* C35: after an admission X-RateLimit-Reset is the smaller of (oldest
\* timestamp of the last 60 s) + 60 s and (oldest timestamp of the last
\* 3600 s) + 3600 s; after the admission of a key's first request it is that
\* request's time + 60 s; and after an admission or a denial it is not
\* earlier than the time at which the call started.
C35_ResetTime ==
    (last.op = "is_allowed") =>
        LET reqs == ip_data[last.key].requests
            reset == Secs(last.headers["X-RateLimit-Reset"])
        IN  /\ last.allowed =>
                  reset = Min(OldestAfter(reqs, clock, MinuteWindowSeconds)
                                 + Secs(MinuteWindowSeconds),
                              OldestAfter(reqs, clock, HourWindowSeconds)
                                 + Secs(HourWindowSeconds))
            /\ (last.allowed /\ Len(reqs) = 1) =>
                  reset = reqs[1] + Secs(MinuteWindowSeconds)
            /\ reset >= last.now

\* the log of key k before the step, empty if the key is not tracked yet
LogBefore(k) == IF k \in DOMAIN ip_data THEN ip_data[k].requests ELSE <<>>

\* C36: no key's log is ever longer than the per-hour limit. A log grows
\* only in an admitting Admit, which appends one timestamp to what pruning
\* has left of the log: timestamps of the last hour only, and fewer of them
\* than the per-hour limit.
C36_LogWithinHourLimit ==
    [][\A k \in DOMAIN ip_data' :
          LET new == ip_data'[k].requests
              front == SubSeq(new, 1, Len(new) - 1)
          IN  /\ Len(new) <= requests_per_hour
              /\ IF AdmitStep(k) /\ last'.allowed
                 THEN /\ new # <<>>
                      /\ Len(front) < requests_per_hour
                      /\ \A i \in DOMAIN front :
                            front[i] > last'.now - Secs(HourWindowSeconds)
                      /\ \E n \in 0 .. Len(LogBefore(k)) :
                            front = SubSeq(LogBefore(k), n + 1, Len(LogBefore(k)))
                 ELSE Len(new) <= Len(LogBefore(k))]_vars

\* the third Admit of a key has pruned the first timestamp and filled the
\* log up to the per-hour limit again
C36_Witness ==
    /\ last.op = "is_allowed" /\ last.allowed /\ calls = 3
    /\ DOMAIN ip_data = {last.key}
    /\ Len(ip_data[last.key].requests) = requests_per_hour
    /\ Len(admitted[last.key]) = requests_per_hour

\* C37: a key that is denied, and that keeps calling while time keeps
\* advancing, is admitted again later, whatever the limits and the block
\* duration (the denials considered are those of the first minute, so that
\* the hour window and the block run out before the clock of the model stops).
C37_NoPermanentLockout ==
    (/\ last.op = "is_allowed" /\ last.key = ArgsClient /\ ~last.allowed
     /\ clock <= Secs(StartSeconds + ShortSpanSeconds) + MaxDrift)
        ~> (last.op = "is_allowed" /\ last.key = ArgsClient /\ last.allowed)

\* a call made after a block of half a minute has run out is denied again,
\* since the minute window is still full, and sets a fresh block
C37_Witness ==
    /\ last.op = "is_allowed" /\ ~last.allowed /\ last.expired
    /\ block_duration_seconds < MinuteWindowSeconds
    /\ clock <= Secs(StartSeconds + ShortSpanSeconds) + MaxDrift

\* the entries of the keys in K, and of no other key
OnlyKeys(d, K) == [k \in DOMAIN d \cap K |-> d[k]]

\* C38: an Admit or an Unblock of key k leaves every other key as it is,
\* tracked or not, with its log and its blocked_until; and what an Admit of k
\* answers and makes of k's entry is what it would answer and make with the
\* entries of all other keys taken away.
C38_KeysIndependent ==
    [][\A k \in Keys :
          /\ (AdmitStep(k) \/ (UnblockStep /\ last'.key = k)) =>
                OnlyKeys(ip_data', Keys \ {k}) = OnlyKeys(ip_data, Keys \ {k})
          /\ AdmitStep(k) =>
                \E T \in AdmitReads(k) :
                    /\ T.now = last'.now /\ T.hdr = last'.hdr /\ T.rst = clock'
                    /\ \E r \in { is_allowed(OnlyKeys(ip_data, {k}), k, requests_per_minute,
                                             requests_per_hour, block_duration_seconds, T) } :
                          /\ r.allowed = last'.allowed
                          /\ r.headers = last'.headers
                          /\ r.data[k] = ip_data'[k]]_vars

\* a key is admitted while the other key is blocked
C38_Witness ==
    /\ last.op = "is_allowed" /\ last.allowed
    /\ \E j \in DOMAIN ip_data \ {last.key} :
          /\ ip_data[j].blocked_until # None
          /\ ip_data[j].requests # <<>>

RECURSIVE Power(_, _)
\* b to the power n
Power(b, n) == IF n = 0 THEN 1 ELSE b * Power(b, n - 1)

\* C39: retry_with_exponential_backoff calls func at most max_retries times
\* and is over within a bounded number of steps; when it has returned, the
\* value is that of its last call of func, which is the only one that did
\* not raise; the k-th wait (k from 0) is min(initial_delay *
\* backoff_factor^k, max_delay), and there is one wait per failed call that
\* another call follows; when it has raised, func has been called
\* max_retries times and the exception is that of the last call.
C39_RetryBounded ==
    (retry.pc # "idle") =>
        /\ retry.calls <= retry.max_retries
        /\ retry.steps <= 3 * retry.max_retries + 1
        /\ \A k \in 0 .. Len(retry.slept) - 1 :
              retry.slept[k + 1] = Min(retry.initial_delay * Power(retry.backoff_factor, k),
                                       retry.max_delay)
        /\ Len(retry.slept) <= retry.max_retries - 1
        /\ Len(retry.slept) <= retry.calls
        /\ (retry.pc = "try") => Len(retry.slept) = retry.calls
        /\ (retry.pc = "returned") =>
              /\ retry.ret = "r" \o ToString(retry.calls)
              /\ retry.last_exception
                    = (IF retry.calls = 1 THEN NoneStr
                       ELSE "e" \o ToString(retry.calls - 1))
              /\ Len(retry.slept) = retry.calls - 1
              /\ retry.raised = NoneStr
        /\ (retry.pc = "raised") =>
              /\ retry.calls = retry.max_retries
              /\ retry.raised = "e" \o ToString(retry.max_retries)
              /\ Len(retry.slept) = retry.max_retries - 1
              /\ retry.ret = NoneStr

\* three attempts have failed, the second wait was capped by max_delay, and
\* the exception of the third attempt has been raised
C39_Witness ==
    /\ retry.pc = "raised" /\ retry.max_retries = 3 /\ retry.raised = "e3"
    /\ retry.slept = <<2, 4>> /\ retry.max_delay = 4 /\ retry.backoff_factor = 3

====
